---- MODULE Spec2Model ----
(***************************************************************************)
(* Tool Execution Engine of optimal-agent: ToolExecutor (registry and      *)
(* facade), ErrorHandler (classifier and retry coordinator) and            *)
(* ExecutionMonitor (deadline, cancellation, history).                     *)
(*                                                                         *)
(* The engine runs on one JavaScript event loop.  An action of this model  *)
(* is one run-to-completion step: the synchronous prefix of a call, the    *)
(* continuation that follows a settled await, a timer callback, or a       *)
(* synchronous API call made by the embedding program.                     *)
(***************************************************************************)
EXTENDS Integers, Sequences, FiniteSets, TLC

\* ------------------------------------------------------------------ bounds
\* how many cancelExecution / cancelAllExecutions calls a behaviour makes
MaxCancels == 2

\* the logical executeTool call of the main specification, and the calls that
\* are in progress together in the concurrent one
Calls == {"c1"}
ConcCalls == {"c1", "c2"}
\* tool names used by invocations, and the tool objects registered under them
Names == {"echo", "grep"}
\* the names the main specification registers a tool under, and the tool objects
RegisteredNames == {"echo"}
Impls == {"v1"}
\* options.timeout as the caller passes it: key not given, 0, or milliseconds
CallerTimeouts ==
  {[given |-> FALSE, ms |-> 0], [given |-> TRUE, ms |-> 0], [given |-> TRUE, ms |-> 50]}
\* options.signal as the caller passes it: none, a live signal, or one that
\* was aborted before the call
CallerSignals == {"none", "live"}

\* how many tasks one execute() call is given
MaxTasks == 3
MaxOverlapTasks == 2
\* how many logError calls are made on a log that is nearly full
MaxLogCalls == 3
\* how many words the message of a raw error has
MaxWords == 2

\* the words a raw error's message is made of: every marker categorizeError
\* looks for, and a word that is no marker
Words ==
  {"ECONNREFUSED", "ETIMEDOUT", "ENOTFOUND", "fetch failed",
   "ENOENT", "EACCES", "EPERM", "no such file",
   "model", "API", "completion",
   "command", "execution", "spawn",
   "boom"}
Messages == UNION {[1..n -> Words] : n \in 0..MaxWords}

\* the execute() call of the scheduler specification
BatchCalls == {"b1"}
\* task priorities as the caller gives them: the key is missing, or it is 1
Priorities == {[given |-> FALSE, value |-> 0], [given |-> TRUE, value |-> 1]}
\* the task lists execute() is given: the i-th task carries the i-th id
TaskLists ==
  UNION {{[i \in 1..n |-> [id |-> "task-" \o ToString(i - 1), priority |-> p[i]]] :
            p \in [1..n -> Priorities]} : n \in 0..MaxTasks}
\* the task lists whose tasks carry no priority
PlainTaskLists == {tasks \in TaskLists : \A i \in 1..Len(tasks) : ~tasks[i].priority.given}
\* how a task's operation settles: its promise resolves or rejects
TaskBehaviours ==
  {[kind |-> "resolved", value |-> "ok", error |-> "undefined"],
   [kind |-> "rejected", value |-> "undefined", error |-> "boom"]}
\* two execute() calls made on one instance, and the task lists they are
\* given: every task has an id of its own and no priority
OverlapCalls == {"b1", "b2"}
OverlapTaskLists(b) ==
  {[i \in 1..n |-> [id |-> b \o "-task-" \o ToString(i - 1),
                    priority |-> [given |-> FALSE, value |-> 0]]] :
     n \in 1..MaxOverlapTasks}
\* the options a ParallelExecutor is constructed with
BatchOptions ==
  [maxConcurrency : {0, 1, 2}, timeout : {0}, stopOnError : BOOLEAN]

\* ------------------------------------------------------- ErrorTypes.ts
NoMessage == <<>>

ValidationError(message) ==
  [isAgentError |-> TRUE, category |-> "validation", severity |-> "medium",
   retryable |-> FALSE, message |-> message,
   suggestedAction |-> "Check input parameters and try again"]

FileOperationError(message) ==
  [isAgentError |-> TRUE, category |-> "file_operation", severity |-> "medium",
   retryable |-> TRUE, message |-> message,
   suggestedAction |-> "Check file permissions and path, then retry"]

ModelError(message) ==
  [isAgentError |-> TRUE, category |-> "model", severity |-> "high",
   retryable |-> TRUE, message |-> message,
   suggestedAction |-> "Check model connection and configuration"]

ToolExecutionError(message) ==
  [isAgentError |-> TRUE, category |-> "tool_execution", severity |-> "medium",
   retryable |-> TRUE, message |-> message,
   suggestedAction |-> "Review tool parameters and retry"]

NetworkError(message) ==
  [isAgentError |-> TRUE, category |-> "network", severity |-> "high",
   retryable |-> TRUE, message |-> message,
   suggestedAction |-> "Check network connection and retry"]

ParsingError(message) ==
  [isAgentError |-> TRUE, category |-> "parsing", severity |-> "low",
   retryable |-> FALSE, message |-> message,
   suggestedAction |-> "Rephrase your request more clearly"]

ContextError(message) ==
  [isAgentError |-> TRUE, category |-> "context", severity |-> "medium",
   retryable |-> TRUE, message |-> message,
   suggestedAction |-> "Try clearing context or starting a new session"]

\* mutant: errors that fall to the default category are retryable
SystemError_retryable(message) ==
  [isAgentError |-> TRUE, category |-> "system", severity |-> "critical",
   retryable |-> TRUE, message |-> message,
   suggestedAction |-> "Check system logs and contact support if issue persists"]

SystemError(message) ==
  [isAgentError |-> TRUE, category |-> "system", severity |-> "critical",
   retryable |-> FALSE, message |-> message,
   suggestedAction |-> "Check system logs and contact support if issue persists"]

\* a plain Error(message): not an OptimalAgentError, no category of its own
RawError(message) ==
  [isAgentError |-> FALSE, category |-> "none", severity |-> "none",
   retryable |-> FALSE, message |-> message, suggestedAction |-> "none"]

\* the raw errors the classifier is asked about
RawErrors == {RawError(message) : message \in Messages}
\* the errors the program has built with one of the eight error classes
ClassifiedErrors ==
  UNION {{ValidationError(message), FileOperationError(message),
          ModelError(message), ToolExecutionError(message),
          NetworkError(message), ParsingError(message),
          ContextError(message), SystemError(message)} : message \in Messages}

\* ------------------------------------------------------ ErrorHandler.ts
\* String.prototype.includes on a message held as its sequence of words
Includes(message, marker) == \E i \in 1..Len(message) : message[i] = marker

IncludesAny(message, markers) == \E m \in markers : Includes(message, m)

\* const message = error.message || String(error)
messageOf(error) == IF error.message = <<>> THEN <<"Error">> ELSE error.message

\* mutant: the model rule is tried before the network and the file rules
categorizeError_modelFirst(error) ==
  IF error.isAgentError THEN error
  ELSE IF IncludesAny(messageOf(error), {"model", "API", "completion"})
       THEN ModelError(messageOf(error))
  ELSE IF IncludesAny(messageOf(error),
                      {"ECONNREFUSED", "ETIMEDOUT", "ENOTFOUND", "fetch failed"})
       THEN NetworkError(messageOf(error))
  ELSE IF IncludesAny(messageOf(error), {"ENOENT", "EACCES", "EPERM", "no such file"})
       THEN FileOperationError(messageOf(error))
  ELSE IF IncludesAny(messageOf(error), {"command", "execution", "spawn"})
       THEN ToolExecutionError(messageOf(error))
  ELSE SystemError(messageOf(error))

\* mutant: the rules are applied to classified errors too
categorizeError_reclassifies(error) ==
  IF IncludesAny(messageOf(error),
                 {"ECONNREFUSED", "ETIMEDOUT", "ENOTFOUND", "fetch failed"})
  THEN NetworkError(messageOf(error))
  ELSE IF IncludesAny(messageOf(error), {"ENOENT", "EACCES", "EPERM", "no such file"})
       THEN FileOperationError(messageOf(error))
  ELSE IF IncludesAny(messageOf(error), {"model", "API", "completion"})
       THEN ModelError(messageOf(error))
  ELSE IF IncludesAny(messageOf(error), {"command", "execution", "spawn"})
       THEN ToolExecutionError(messageOf(error))
  ELSE SystemError(messageOf(error))

categorizeError(error) ==
  IF error.isAgentError THEN error
  ELSE IF IncludesAny(messageOf(error),
                      {"ECONNREFUSED", "ETIMEDOUT", "ENOTFOUND", "fetch failed"})
       THEN NetworkError(messageOf(error))
  ELSE IF IncludesAny(messageOf(error), {"ENOENT", "EACCES", "EPERM", "no such file"})
       THEN FileOperationError(messageOf(error))
  ELSE IF IncludesAny(messageOf(error), {"model", "API", "completion"})
       THEN ModelError(messageOf(error))
  ELSE IF IncludesAny(messageOf(error), {"command", "execution", "spawn"})
       THEN ToolExecutionError(messageOf(error))
  ELSE SystemError(messageOf(error))

getRecoverySuggestions(error) ==
  <<error.suggestedAction>> \o
  CASE error.category = "file_operation" ->
         <<"Verify the file path exists",
           "Check file permissions (read/write access)",
           "Ensure sufficient disk space">>
    [] error.category = "network" ->
         <<"Check your internet connection",
           "Verify the API endpoint is accessible",
           "Check for firewall or proxy issues">>
    [] error.category = "model" ->
         <<"Ensure the model is loaded and running",
           "Check model configuration in .env file",
           "Verify API credentials are correct">>
    [] error.category = "tool_execution" ->
         <<"Review the tool parameters",
           "Check if required dependencies are installed",
           "Verify the command syntax is correct">>
    [] error.category = "parsing" ->
         <<"Rephrase your request more clearly",
           "Use explicit tool names when possible",
           "Break complex requests into simpler steps">>
    [] error.category = "context" ->
         <<"Try clearing the conversation context",
           "Start a new session",
           "Reduce the context window size">>
    [] OTHER -> <<>>

\* the text formatUserError builds, as its sequence of lines and words
formatUserError(error) ==
  LET categorizedError == categorizeError(error)
      suggestions == getRecoverySuggestions(categorizedError)
  IN  <<"Error:">> \o categorizedError.message
        \o <<"Category:", categorizedError.category,
             "Severity:", categorizedError.severity>>
        \o (IF Len(suggestions) > 0
            THEN <<"Suggested actions:">> \o suggestions ELSE <<>>)

\* the in-memory part of logError: push, then keep the last 100
ErrorLogCapacity == 100
\* retryCount is optional: <<>> when the caller gives none
NoRetryCount == <<>>

\* mutant: the log is never trimmed
logError_keepsAll(logs, error, retryCount) ==
  LET categorizedError == categorizeError(error)
      errorLog == [category |-> categorizedError.category,
                   severity |-> categorizedError.severity,
                   message |-> categorizedError.message,
                   retryCount |-> retryCount]
  IN  Append(logs, errorLog)

logError(logs, error, retryCount) ==
  LET categorizedError == categorizeError(error)
      errorLog == [category |-> categorizedError.category,
                   severity |-> categorizedError.severity,
                   message |-> categorizedError.message,
                   retryCount |-> retryCount]
      pushed == Append(logs, errorLog)
  IN  IF Len(pushed) > ErrorLogCapacity THEN Tail(pushed) ELSE pushed

defaultRetryConfig ==
  [maxRetries |-> 3, initialDelayMs |-> 1000, maxDelayMs |-> 10000,
   exponentialBackoff |-> TRUE]

\* { ...defaultRetryConfig, ...config } for the config executeTool passes
toolRetryConfig ==
  [defaultRetryConfig EXCEPT !.maxRetries = 2, !.initialDelayMs = 500,
                             !.exponentialBackoff = TRUE]

\* the merged configurations handleWithRetry is called with: the default,
\* executeTool's, one without backoff, one whose cap is reached, one whose
\* cap is below the initial delay, and one that permits no retry
RetryConfigs ==
  {defaultRetryConfig,
   toolRetryConfig,
   [defaultRetryConfig EXCEPT !.maxRetries = 2, !.initialDelayMs = 500,
                              !.exponentialBackoff = FALSE],
   [defaultRetryConfig EXCEPT !.maxDelayMs = 1500],
   [defaultRetryConfig EXCEPT !.maxRetries = 2, !.maxDelayMs = 500],
   [defaultRetryConfig EXCEPT !.maxRetries = 0]}

Min(a, b) == IF a < b THEN a ELSE b

\* mutant: the doubled delay is not capped
nextDelay_uncapped(retryConfig, currentDelay) ==
  IF retryConfig.exponentialBackoff THEN currentDelay * 2 ELSE currentDelay

\* the delay handleWithRetry computes after a wait
nextDelay(retryConfig, currentDelay) ==
  IF retryConfig.exponentialBackoff
  THEN Min(currentDelay * 2, retryConfig.maxDelayMs)
  ELSE currentDelay

\* mutant: the loop gives up one attempt early
retryDecision_early(retryConfig, error, attempt) ==
  IF error.isAgentError /\ ~error.retryable THEN "rethrow"
  ELSE IF attempt >= retryConfig.maxRetries - 1 THEN "giveup"
  ELSE "retry"

\* mutant: the loop runs one attempt too many
retryDecision_extra(retryConfig, error, attempt) ==
  IF error.isAgentError /\ ~error.retryable THEN "rethrow"
  ELSE IF attempt = retryConfig.maxRetries + 1 THEN "giveup"
  ELSE "retry"

\* what handleWithRetry does with an error its operation threw on `attempt`
\*   "rethrow": not retryable, thrown on at once
\*   "giveup" : the last permitted attempt, logged and thrown on
\*   "retry"  : wait currentDelay and try again
retryDecision(retryConfig, error, attempt) ==
  IF error.isAgentError /\ ~error.retryable THEN "rethrow"
  ELSE IF attempt = retryConfig.maxRetries THEN "giveup"
  ELSE "retry"

\* ---------------------------------------------------------------- values
\* ToolResult, without its clock reading
ToolResult(success, output, errorMessage) ==
  [success |-> success, output |-> output, errorMessage |-> errorMessage]

NoResult == ToolResult(FALSE, "unset", <<"unset">>)

\* how a promise or an async call ends
Return(value) == [kind |-> "return", value |-> value, error |-> RawError(NoMessage)]
Throw(error) == [kind |-> "throw", value |-> NoResult, error |-> error]
Pending == [kind |-> "pending", value |-> NoResult, error |-> RawError(NoMessage)]
\* the DOMException('Execution aborted', 'AbortError') of the abort promise
AbortError == [kind |-> "abort", value |-> NoResult,
               error |-> RawError(<<"Execution", "aborted">>)]

\* what a tool implementation may do with one call of execute(parameters)
ThrowableErrors ==
  { RawError(<<"connect", "ECONNREFUSED">>),
    RawError(<<"boom">>),
    ValidationError(<<"bad", "input">>) }

ToolBehaviours ==
  { Return(ToolResult(TRUE, "hi", NoMessage)),
    Return(ToolResult(FALSE, "", <<"not", "found">>)) }
  \cup { Throw(e) : e \in ThrowableErrors }

\* ------------------------------------------------------------------ state
VARIABLES
  tools,             \* ToolExecutor.tools: Map name -> tool, in insertion order
  errorLogs,         \* ErrorHandler.errorLogs
  executionHistory,  \* ExecutionMonitor.executionHistory: the metrics objects, by id
  activeExecutions,  \* ExecutionMonitor.activeExecutions: ids with a controller
  att,               \* every attempt started, indexed by its executionId
  calls,             \* every logical executeTool call
  cancels,           \* cancelExecution / cancelAllExecutions calls made so far,
                     \* and what the last cancelAllExecutions call returned
  executor,          \* the ParallelExecutor instance: its options and fields
  batches,           \* the execute() calls made on the ParallelExecutor
  runs,              \* the tasks executeTask has started, oldest first
  classified,        \* the last categorizeError call: its argument and its result
  registered         \* per name, the tool object of the latest registerTool call

engineVars == <<tools, errorLogs, executionHistory, activeExecutions, att, calls,
                cancels, registered>>

schedulerVars == <<executor, batches, runs>>

vars == <<tools, errorLogs, executionHistory, activeExecutions, att, calls,
          cancels, executor, batches, runs, classified, registered>>

\* ------------------------------------------------------- the registry Map
NoTool == "undefined"

MapHas(map, name) == \E i \in 1..Len(map) : map[i].name = name

\* mutant: a miss falls back to the first registered tool
MapGet_fallback(map, name) ==
  IF MapHas(map, name)
  THEN (CHOOSE e \in {map[i] : i \in 1..Len(map)} : e.name = name).impl
  ELSE IF Len(map) > 0 THEN map[1].impl ELSE NoTool

MapGet(map, name) ==
  IF MapHas(map, name)
  THEN (CHOOSE e \in {map[i] : i \in 1..Len(map)} : e.name = name).impl
  ELSE NoTool

\* mutant: a key that is present keeps the value it has
MapSet_keepsFirst(map, name, impl) ==
  IF MapHas(map, name) THEN map
  ELSE Append(map, [name |-> name, impl |-> impl])

\* Map.set: a new key goes last, an existing key keeps its place
MapSet(map, name, impl) ==
  IF MapHas(map, name)
  THEN [i \in 1..Len(map) |->
          IF map[i].name = name THEN [name |-> name, impl |-> impl] ELSE map[i]]
  ELSE Append(map, [name |-> name, impl |-> impl])

getAvailableTools == [i \in 1..Len(tools) |-> tools[i].name]

\* ------------------------------------------------------ ExecutionMonitor
maxHistorySize == 1000
defaultTimeout == 120000

\* executionOptions = { timeout: defaultTimeout, trackResources: true, ...options }
effectiveTimeout(callerTimeout) ==
  IF callerTimeout.given THEN callerTimeout.ms ELSE defaultTimeout

\* generateExecutionId: a fresh id per attempt
generateExecutionId == Len(att) + 1

timeoutMessage(ms) ==
  <<"Tool", "execution", "timed", "out", "after", ToString(ms) \o "ms">>

cancelledMessage == <<"Tool", "execution", "was", "cancelled">>

\* executeWithMonitoring up to its first await: the controller, the metrics
\* object, the timer, the listener on the caller's signal, and the race of
\* executeWithCancellation
newAttempt(c, name, impl, timeoutMs, signal) ==
  [call |-> c, toolName |-> name, impl |-> impl, timeoutMs |-> timeoutMs,
   \* how many times cancelExecution returned true for this id
   cancelledTrue |-> 0,
   \* metrics
   success |-> FALSE, result |-> NoResult, error |-> NoMessage, ended |-> FALSE,
   cancelled |-> FALSE, timedOut |-> FALSE,
   \* abortController.signal.aborted
   aborted |-> FALSE,
   \* setTimeout only when options.timeout is truthy
   timer |-> IF timeoutMs # 0 THEN "armed" ELSE "none",
   \* options.signal.addEventListener('abort', ...) only when a signal is given
   listening |-> signal # "none",
   \* the promise tool.execute(parameters) returned
   op |-> "pending",
   \* Promise.race([tool.execute(parameters), abortPromise])
   race |-> Pending,
   \* how executeWithMonitoring ended, once its finally block has run
   outcome |-> Pending,
   completed |-> FALSE]

\* AbortController.abort(): the first call fires the abort event, which
\* rejects the abort promise; later calls do nothing
abort(a) ==
  IF a.aborted THEN a
  ELSE [a EXCEPT !.aborted = TRUE,
                 !.race = IF @.kind = "pending" THEN AbortError ELSE @]

\* mutant: the timer callback forgets to mark the attempt
onTimeout_unmarked(a) == [abort(a) EXCEPT !.timer = "fired"]

\* the timer callback: abortController.abort(); metrics.timedOut = true
onTimeout(a) == [abort(a) EXCEPT !.timer = "fired", !.timedOut = TRUE]

\* the listener on the caller's signal: abortController.abort(); metrics.cancelled = true
onExternalAbort(a) == [abort(a) EXCEPT !.cancelled = TRUE]

\* mutant: the try block forgets metrics.success
finishAttempt_unmarked(a) ==
  IF a.race.kind = "return"
  THEN [a EXCEPT !.timer = IF @ = "armed" THEN "cleared" ELSE @,
                 !.result = a.race.value,
                 !.ended = TRUE,
                 !.outcome = Return(a.race.value),
                 !.completed = TRUE]
  ELSE IF a.race.kind = "abort" \/ a.aborted
  THEN LET message == IF a.timedOut THEN timeoutMessage(a.timeoutMs)
                      ELSE cancelledMessage
       IN  [a EXCEPT !.error = message,
                     !.ended = TRUE,
                     !.outcome = Return(ToolResult(FALSE, "", message)),
                     !.completed = TRUE]
  ELSE [a EXCEPT !.success = FALSE,
                 !.error = a.race.error.message,
                 !.ended = TRUE,
                 !.outcome = Throw(a.race.error),
                 !.completed = TRUE]

\* mutant: the catch block throws the timeout or cancellation as an error
finishAttempt_throwsAbort(a) ==
  IF a.race.kind = "return"
  THEN [a EXCEPT !.timer = IF @ = "armed" THEN "cleared" ELSE @,
                 !.success = a.race.value.success,
                 !.result = a.race.value,
                 !.ended = TRUE,
                 !.outcome = Return(a.race.value),
                 !.completed = TRUE]
  ELSE IF a.race.kind = "abort" \/ a.aborted
  THEN LET message == IF a.timedOut THEN timeoutMessage(a.timeoutMs)
                      ELSE cancelledMessage
       IN  [a EXCEPT !.error = message,
                     !.ended = TRUE,
                     !.outcome = Throw(RawError(message)),
                     !.completed = TRUE]
  ELSE [a EXCEPT !.success = FALSE,
                 !.error = a.race.error.message,
                 !.ended = TRUE,
                 !.outcome = Throw(a.race.error),
                 !.completed = TRUE]

\* mutant: an error thrown by the tool is turned into a failure result
finishAttempt_swallows(a) ==
  IF a.race.kind = "return"
  THEN [a EXCEPT !.timer = IF @ = "armed" THEN "cleared" ELSE @,
                 !.success = a.race.value.success,
                 !.result = a.race.value,
                 !.ended = TRUE,
                 !.outcome = Return(a.race.value),
                 !.completed = TRUE]
  ELSE IF a.race.kind = "abort" \/ a.aborted
  THEN LET message == IF a.timedOut THEN timeoutMessage(a.timeoutMs)
                      ELSE cancelledMessage
       IN  [a EXCEPT !.error = message,
                     !.ended = TRUE,
                     !.outcome = Return(ToolResult(FALSE, "", message)),
                     !.completed = TRUE]
  ELSE [a EXCEPT !.success = FALSE,
                 !.error = a.race.error.message,
                 !.ended = TRUE,
                 !.outcome = Return(ToolResult(FALSE, "", a.race.error.message)),
                 !.completed = TRUE]

\* executeWithMonitoring after the awaited race has settled: the rest of the
\* try block, or the catch block
finishAttempt(a) ==
  IF a.race.kind = "return"
  THEN [a EXCEPT !.timer = IF @ = "armed" THEN "cleared" ELSE @,
                 !.success = a.race.value.success,
                 !.result = a.race.value,
                 !.ended = TRUE,
                 !.outcome = Return(a.race.value),
                 !.completed = TRUE]
  ELSE IF a.race.kind = "abort" \/ a.aborted
  THEN LET message == IF a.timedOut THEN timeoutMessage(a.timeoutMs)
                      ELSE cancelledMessage
       IN  [a EXCEPT !.error = message,
                     !.ended = TRUE,
                     !.outcome = Return(ToolResult(FALSE, "", message)),
                     !.completed = TRUE]
  ELSE [a EXCEPT !.success = FALSE,
                 !.error = a.race.error.message,
                 !.ended = TRUE,
                 !.outcome = Throw(a.race.error),
                 !.completed = TRUE]

\* mutant: the entry is left in the table
deleteActive_forgets(active, id) == active

\* the finally block, first statement
deleteActive(active, id) == active \ {id}

\* mutant: nothing is pushed
recordExecution_forgets(history, id) == history

\* mutant: the history is kept in the order the attempts started
recordExecution_byStart(history, id) ==
  LET before == SelectSeq(history, LAMBDA h : h < id)
      after == SelectSeq(history, LAMBDA h : h > id)
      pushed == before \o <<id>> \o after
  IN  IF Len(pushed) > maxHistorySize THEN Tail(pushed) ELSE pushed

\* mutant: the oldest record is dropped one push early
recordExecution_early(history, id) ==
  LET pushed == Append(history, id)
  IN  IF Len(pushed) >= maxHistorySize THEN Tail(pushed) ELSE pushed

\* mutant: at capacity the newest record is dropped, not the oldest
recordExecution_dropsNewest(history, id) ==
  LET pushed == Append(history, id)
  IN  IF Len(pushed) > maxHistorySize THEN SubSeq(pushed, 1, maxHistorySize)
      ELSE pushed

\* recordExecution: push, then drop the oldest beyond maxHistorySize
recordExecution(history, id) ==
  LET pushed == Append(history, id)
  IN  IF Len(pushed) > maxHistorySize THEN Tail(pushed) ELSE pushed

\* ---------------------------------------------------------- ToolExecutor
idleCall ==
  [pc |-> "idle", toolName |-> "none", impl |-> NoTool, timeout |-> [given |-> FALSE, ms |-> 0],
   signal |-> "none", attempt |-> 0, currentDelay |-> 0, waits |-> <<>>,
   ids |-> <<>>, completion |-> Pending,
   \* { ...this.defaultRetryConfig, ...config } of handleWithRetry
   retryConfig |-> defaultRetryConfig]

unknownToolMessage(name) == <<"Unknown", "tool:", name>>

\* mutant: the catch block rethrows
executeToolCatch_rethrows(name, error) == Throw(error)

\* the catch block of executeTool: wrap, and return the formatted failure
executeToolCatch(name, error) ==
  Return(ToolResult(FALSE, "",
    formatUserError(ToolExecutionError(<<"Tool", name, "failed:">> \o error.message))))

\* the error executeTool logs in its catch block
toolError(name, error) ==
  ToolExecutionError(<<"Tool", name, "failed:">> \o error.message)

\* a continuation is queued: no timer callback runs before it has run
PendingContinuation ==
  \E i \in 1..Len(att) : ~att[i].completed /\ att[i].race.kind # "pending"

\* one call of the operation handleWithRetry wraps: executeWithMonitoring
\* up to its first await
StartAttempt(c, cr) ==
  LET id == generateExecutionId
  IN  /\ att' = Append(att, newAttempt(c, cr.toolName, cr.impl,
                                      effectiveTimeout(cr.timeout), cr.signal))
      /\ activeExecutions' = activeExecutions \cup {id}
      /\ calls' = [calls EXCEPT ![c] = [cr EXCEPT !.ids = Append(@, id)]]

registerTool(name, impl) ==
  /\ UNCHANGED <<schedulerVars, classified>>
  /\ tools' = MapSet(tools, name, impl)
  /\ registered' = [registered EXCEPT ![name] = impl]
  /\ UNCHANGED <<errorLogs, executionHistory, activeExecutions, att, calls,
                 cancels>>

\* executeTool up to its first await
executeTool(c, name, timeout, signal) ==
  /\ UNCHANGED <<schedulerVars, classified, registered>>
  /\ calls[c].pc = "idle"
  /\ IF MapGet(tools, name) = NoTool
     THEN /\ errorLogs' = logError(errorLogs,
                                   ToolExecutionError(unknownToolMessage(name)),
                                   NoRetryCount)
          /\ calls' = [calls EXCEPT ![c] =
               [@ EXCEPT !.pc = "done", !.toolName = name,
                         !.completion =
                            Return(ToolResult(FALSE, "", unknownToolMessage(name)))]]
          /\ UNCHANGED <<att, activeExecutions>>
     ELSE /\ StartAttempt(c, [calls[c] EXCEPT
                                !.pc = "running", !.toolName = name,
                                !.impl = MapGet(tools, name),
                                !.timeout = timeout, !.signal = signal,
                                !.attempt = 0,
                                !.retryConfig = toolRetryConfig,
                                !.currentDelay = toolRetryConfig.initialDelayMs])
          /\ UNCHANGED errorLogs
  /\ UNCHANGED <<tools, executionHistory, cancels>>

\* the tool's promise settles
toolSettles(id, behaviour) ==
  /\ UNCHANGED <<schedulerVars, classified, registered>>
  /\ id \in 1..Len(att)
  /\ att[id].op = "pending"
  /\ att' = [att EXCEPT ![id] =
       [@ EXCEPT !.op = "settled",
                 !.race = IF @.kind = "pending" THEN behaviour ELSE @]]
  /\ UNCHANGED <<tools, errorLogs, executionHistory,
                 activeExecutions, calls, cancels>>

\* the timer armed by executeWithMonitoring fires
timerFires(id) ==
  /\ UNCHANGED <<schedulerVars, classified, registered>>
  /\ id \in 1..Len(att)
  /\ att[id].timer = "armed"
  /\ ~PendingContinuation
  /\ att' = [att EXCEPT ![id] = onTimeout(@)]
  /\ UNCHANGED <<tools, errorLogs, executionHistory,
                 activeExecutions, calls, cancels>>

\* the caller aborts the signal it passed in options.signal
externalAbort(c) ==
  /\ UNCHANGED <<schedulerVars, classified, registered>>
  /\ calls[c].pc # "idle"
  /\ calls[c].signal = "live"
  /\ calls' = [calls EXCEPT ![c].signal = "aborted"]
  /\ att' = [i \in 1..Len(att) |->
               IF att[i].call = c /\ att[i].listening
               THEN onExternalAbort(att[i]) ELSE att[i]]
  /\ UNCHANGED <<tools, errorLogs, executionHistory,
                 activeExecutions, cancels>>

\* no cancel call has been made
noCancels == [made |-> 0, returned |-> <<>>]

\* what cancelExecution(id) returns
cancelExecutionReturns(active, id) == id \in active

\* cancelExecution(id), for an id that was issued
cancelExecution(id) ==
  /\ UNCHANGED <<schedulerVars, classified, registered>>
  /\ cancels.made < MaxCancels
  /\ id \in 1..Len(att)
  /\ cancels' = [cancels EXCEPT !.made = @ + 1]
  /\ att' = IF cancelExecutionReturns(activeExecutions, id)
            THEN [att EXCEPT ![id] = [abort(@) EXCEPT !.cancelledTrue = @ + 1]]
            ELSE att
  /\ UNCHANGED <<tools, errorLogs, executionHistory,
                 activeExecutions, calls>>

\* mutant: controllers that are already aborted are not counted
cancelAllExecutionsReturns_skipsAborted(active) ==
  Cardinality({id \in active : ~att[id].aborted})

\* what cancelAllExecutions() returns: count++ once per controller in the table
RECURSIVE cancelAllExecutionsReturns(_)
cancelAllExecutionsReturns(active) ==
  IF active = {} THEN 0
  ELSE LET id == CHOOSE i \in active : TRUE
       IN  cancelAllExecutionsReturns(active \ {id}) + 1

cancelAllExecutions ==
  /\ UNCHANGED <<schedulerVars, classified, registered>>
  /\ cancels.made < MaxCancels
  /\ cancels' = [made |-> cancels.made + 1,
                 returned |-> <<cancelAllExecutionsReturns(activeExecutions)>>]
  /\ att' = [i \in 1..Len(att) |->
               IF i \in activeExecutions THEN abort(att[i]) ELSE att[i]]
  /\ UNCHANGED <<tools, errorLogs, executionHistory,
                 activeExecutions, calls>>

\* the continuation of executeWithMonitoring once the race has settled, its
\* finally block, and what handleWithRetry and executeTool do with the way it
\* ended
attemptCompletes(id) ==
  /\ UNCHANGED <<schedulerVars, classified, registered>>
  /\ id \in 1..Len(att)
  /\ ~att[id].completed
  /\ att[id].race.kind # "pending"
  /\ LET a == finishAttempt(att[id])
         c == a.call
         cr == calls[c]
         decision == IF a.outcome.kind = "return" THEN "return"
                     ELSE retryDecision(cr.retryConfig, a.outcome.error, cr.attempt)
     IN  /\ att' = [att EXCEPT ![id] = a]
         /\ activeExecutions' = deleteActive(activeExecutions, id)
         /\ executionHistory' = recordExecution(executionHistory, id)
         /\ CASE decision = "return" ->
                   /\ calls' = [calls EXCEPT ![c] =
                        [cr EXCEPT !.pc = "done", !.completion = a.outcome]]
                   /\ UNCHANGED errorLogs
              [] decision = "rethrow" ->
                   /\ calls' = [calls EXCEPT ![c] =
                        [cr EXCEPT !.pc = "done",
                           !.completion = executeToolCatch(cr.toolName, a.outcome.error)]]
                   /\ errorLogs' = logError(errorLogs,
                        toolError(cr.toolName, a.outcome.error), NoRetryCount)
              [] decision = "giveup" ->
                   /\ calls' = [calls EXCEPT ![c] =
                        [cr EXCEPT !.pc = "done",
                           !.completion = executeToolCatch(cr.toolName, a.outcome.error)]]
                   /\ errorLogs' = logError(
                        logError(errorLogs, a.outcome.error, <<cr.attempt>>),
                        toolError(cr.toolName, a.outcome.error), NoRetryCount)
              [] decision = "retry" ->
                   /\ calls' = [calls EXCEPT ![c] =
                        [cr EXCEPT !.pc = "delay",
                                   !.waits = Append(@, cr.currentDelay)]]
                   /\ UNCHANGED errorLogs
  /\ UNCHANGED <<tools, cancels>>

\* mutant: the next attempt is started without awaiting the one in flight
retryDelayElapsed_overlaps(c) ==
  /\ UNCHANGED <<schedulerVars, classified, registered>>
  /\ calls[c].pc \in {"running", "delay"}
  /\ Len(calls[c].ids) <= calls[c].retryConfig.maxRetries
  /\ ~PendingContinuation
  /\ StartAttempt(c, [calls[c] EXCEPT
                        !.pc = "running",
                        !.attempt = @ + 1,
                        !.currentDelay = nextDelay(calls[c].retryConfig, @)])
  /\ UNCHANGED <<tools, errorLogs, executionHistory, cancels>>

\* the backoff delay of handleWithRetry elapses: the next delay is computed
\* and the operation is called again
retryDelayElapsed(c) ==
  /\ UNCHANGED <<schedulerVars, classified, registered>>
  /\ calls[c].pc = "delay"
  /\ ~PendingContinuation
  /\ StartAttempt(c, [calls[c] EXCEPT
                        !.pc = "running",
                        !.attempt = @ + 1,
                        !.currentDelay = nextDelay(calls[c].retryConfig, @)])
  /\ UNCHANGED <<tools, errorLogs, executionHistory, cancels>>

\* ------------------------------------------------------ ParallelExecutor
defaultMaxConcurrency == 5
defaultTaskTimeout == 60000

\* new ParallelExecutor(options); a key that is absent and a key that is 0 or
\* false are the same to `options.key || default`, so 0 stands for both
newParallelExecutor(options) ==
  [maxConcurrency |-> IF options.maxConcurrency # 0 THEN options.maxConcurrency
                      ELSE defaultMaxConcurrency,
   timeout |-> IF options.timeout # 0 THEN options.timeout ELSE defaultTaskTimeout,
   stopOnError |-> options.stopOnError,
   running |-> 0,
   queue |-> <<>>,
   results |-> <<>>,
   shouldStop |-> FALSE]

globalParallelExecutor ==
  newParallelExecutor([maxConcurrency |-> 5, timeout |-> 60000, stopOnError |-> FALSE])

\* an execute() call that has not been made yet
idleBatch == [pc |-> "idle", tasks |-> <<>>, returned |-> <<>>]

\* `task-${index}`, the ids BatchProcessor gives its tasks
taskId(i) == "task-" \o ToString(i - 1)

ParallelResult(id, success, result, error) ==
  [defined |-> TRUE, id |-> id, success |-> success, result |-> result, error |-> error]

\* what Map.get returns for a key that was never set
Undefined ==
  [defined |-> FALSE, id |-> "undefined", success |-> FALSE,
   result |-> "undefined", error |-> "undefined"]

ResultsGet(results, id) == IF id \in DOMAIN results THEN results[id] ELSE Undefined

ResultsSet(results, id, value) == (id :> value) @@ results

\* a promise that has not settled, has resolved, or has rejected
Unsettled == [kind |-> "pending", value |-> "undefined", error |-> "undefined"]
Resolved(value) == [kind |-> "resolved", value |-> value, error |-> "undefined"]
Rejected(error) == [kind |-> "rejected", value |-> "undefined", error |-> error]

stoppedError == "Execution stopped"

taskTimeoutError(ms) == "Task timed out after " \o ToString(ms) \o "ms"

\* [...tasks].sort((a, b) => (b.priority || 0) - (a.priority || 0)): a stable
\* sort, higher priority first
\* mutant: the queue keeps the input order
sortByPriority_unsorted(tasks) == tasks

\* task.priority || 0
priorityOf(task) == IF task.priority.given THEN task.priority.value ELSE 0

RECURSIVE sortByPriority(_)
sortByPriority(tasks) ==
  IF tasks = <<>> THEN <<>>
  ELSE LET first == Head(tasks)
           rest == sortByPriority(Tail(tasks))
           ahead == SelectSeq(rest, LAMBDA t : priorityOf(t) > priorityOf(first))
           behind == SelectSeq(rest, LAMBDA t : priorityOf(t) <= priorityOf(first))
       IN  ahead \o <<first>> \o behind

\* reset()
reset(ex) ==
  [ex EXCEPT !.running = 0, !.queue = <<>>, !.results = <<>>, !.shouldStop = FALSE]

\* mutant: executeWithTimeout arms no timer
executeTask_noTimer(state, task, b) ==
  IF state.executor.shouldStop
  THEN [state EXCEPT !.executor.results =
          ResultsSet(@, task.id, ParallelResult(task.id, FALSE, "undefined", stoppedError))]
  ELSE [executor |-> [state.executor EXCEPT !.running = @ + 1],
        runs |-> Append(state.runs,
                   [task |-> task.id, batch |-> b, op |-> "pending",
                    timer |-> "none", wrapper |-> Unsettled, done |-> FALSE])]

\* executeTask up to its first await, on behalf of execute() call b: either
\* the task is resolved as stopped, or it takes a slot and its operation is
\* called under a timer
executeTask(state, task, b) ==
  IF state.executor.shouldStop
  THEN [state EXCEPT !.executor.results =
          ResultsSet(@, task.id, ParallelResult(task.id, FALSE, "undefined", stoppedError))]
  ELSE [executor |-> [state.executor EXCEPT !.running = @ + 1],
        runs |-> Append(state.runs,
                   [task |-> task.id, batch |-> b,
                    \* the promise task.execute() returned
                    op |-> "pending",
                    \* the timer of executeWithTimeout
                    timer |-> "armed",
                    \* the promise executeWithTimeout returned
                    wrapper |-> Unsettled,
                    \* executeTask has run its try / catch / finally
                    done |-> FALSE])]

\* the while loop of execute(): start tasks while a slot is free
RECURSIVE startInitialBatch(_, _)
startInitialBatch(state, b) ==
  IF state.executor.running < state.executor.maxConcurrency
     /\ state.executor.queue # <<>>
  THEN LET task == Head(state.executor.queue)
       IN  startInitialBatch(
             executeTask([state EXCEPT !.executor.queue = Tail(@)], task, b), b)
  ELSE state

\* execute(tasks) up to its await
execute(b, tasks) ==
  /\ batches[b].pc = "idle"
  /\ LET queued == [reset(executor) EXCEPT !.queue = sortByPriority(tasks)]
         started == startInitialBatch([executor |-> queued, runs |-> runs], b)
     IN  /\ executor' = started.executor
         /\ runs' = started.runs
  /\ batches' = [batches EXCEPT ![b] =
       [pc |-> "awaiting", tasks |-> tasks, returned |-> <<>>]]
  /\ UNCHANGED <<engineVars, classified>>

\* mutant: a promise the timer has rejected is settled a second time
taskSettles_overwrites(r, behaviour) ==
  /\ r \in 1..Len(runs)
  /\ runs[r].op = "pending"
  /\ runs' = [runs EXCEPT ![r] =
       [@ EXCEPT !.op = "settled",
                 !.timer = IF @ = "armed" THEN "cleared" ELSE @,
                 !.wrapper = behaviour]]
  /\ UNCHANGED <<engineVars, classified, executor, batches>>

\* the promise of a task's operation settles; the callbacks executeWithTimeout
\* chained on it clear the timer and settle the returned promise, unless the
\* timer has already rejected it
taskSettles(r, behaviour) ==
  /\ r \in 1..Len(runs)
  /\ runs[r].op = "pending"
  /\ runs' = [runs EXCEPT ![r] =
       [@ EXCEPT !.op = "settled",
                 !.timer = IF @ = "armed" THEN "cleared" ELSE @,
                 !.wrapper = IF @.kind = "pending" THEN behaviour ELSE @]]
  /\ UNCHANGED <<engineVars, classified, executor, batches>>

\* a continuation of the scheduler is queued: no timer callback runs before it
PendingTaskContinuation ==
  \/ \E r \in 1..Len(runs) : ~runs[r].done /\ runs[r].wrapper.kind # "pending"
  \/ \E b \in DOMAIN batches :
       /\ batches[b].pc = "awaiting"
       /\ \A r \in 1..Len(runs) : runs[r].batch = b => runs[r].done

\* the timer of executeWithTimeout fires
taskTimerFires(r) ==
  /\ r \in 1..Len(runs)
  /\ runs[r].timer = "armed"
  /\ ~PendingTaskContinuation
  /\ runs' = [runs EXCEPT ![r] =
       [@ EXCEPT !.timer = "fired",
                 !.wrapper = Rejected(taskTimeoutError(executor.timeout))]]
  /\ UNCHANGED <<engineVars, classified, executor, batches>>

\* mutant: the next tasks are started only when the running ones have all
\* finished
startNext_atBatchBoundary(state, b) ==
  IF ~state.executor.shouldStop /\ state.executor.queue # <<>>
     /\ state.executor.running = 0
  THEN startInitialBatch(state, b)
  ELSE state

\* the finally block after running--: start the next queued task
startNext(state, b) ==
  IF ~state.executor.shouldStop /\ state.executor.queue # <<>>
  THEN executeTask([state EXCEPT !.executor.queue = Tail(@)],
                   Head(state.executor.queue), b)
  ELSE state

\* mutant: a failure sets the stop flag whatever stopOnError is
catchSetsStop_always(ex, ok) == IF ~ok THEN TRUE ELSE ex.shouldStop

\* mutant: a failure never sets the stop flag
catchSetsStop_never(ex, ok) == ex.shouldStop

\* the catch block's `if (this.stopOnError) this.shouldStop = true`
catchSetsStop(ex, ok) == IF ~ok /\ ex.stopOnError THEN TRUE ELSE ex.shouldStop

\* executeTask after its await: the rest of the try block or the catch
\* block, and the finally block, which starts the next queued task
taskCompletes(r) ==
  /\ r \in 1..Len(runs)
  /\ ~runs[r].done
  /\ runs[r].wrapper.kind # "pending"
  /\ LET run == runs[r]
         ok == run.wrapper.kind = "resolved"
         result == IF ok
                   THEN ParallelResult(run.task, TRUE, run.wrapper.value, "undefined")
                   ELSE ParallelResult(run.task, FALSE, "undefined", run.wrapper.error)
         settled == [executor EXCEPT
                       !.results = ResultsSet(@, run.task, result),
                       !.shouldStop = catchSetsStop(executor, ok)]
         freed == [settled EXCEPT !.running = @ - 1]
         state == [executor |-> freed, runs |-> [runs EXCEPT ![r].done = TRUE]]
         next == startNext(state, run.batch)
     IN  /\ executor' = next.executor
         /\ runs' = next.runs
  /\ UNCHANGED <<engineVars, classified, batches>>

\* execute(tasks) after Promise.all has resolved: the results in input order
executeReturns(b) ==
  /\ batches[b].pc = "awaiting"
  /\ \A r \in 1..Len(runs) : runs[r].batch = b => runs[r].done
  /\ batches' = [batches EXCEPT ![b] =
       [@ EXCEPT !.pc = "done",
                 !.returned = [i \in 1..Len(batches[b].tasks) |->
                                 ResultsGet(executor.results,
                                            batches[b].tasks[i].id)]]]
  /\ UNCHANGED <<engineVars, classified, executor, runs>>

EngineInit(callSet) ==
  /\ tools = <<>>
  /\ errorLogs = <<>>
  /\ executionHistory = <<>>
  /\ activeExecutions = {}
  /\ att = <<>>
  /\ calls = [c \in callSet |-> idleCall]
  /\ cancels = noCancels
  /\ registered = [name \in Names |-> NoTool]

\* the engine as constructed, the exported ParallelExecutor as constructed, and
\* no classification asked for yet
InitWith(callSet) ==
  /\ EngineInit(callSet)
  /\ executor = globalParallelExecutor
  /\ batches = [b \in BatchCalls |-> idleBatch]
  /\ runs = <<>>
  /\ classified = <<>>

Init == InitWith(Calls)

Next ==
  \/ \E name \in RegisteredNames, impl \in Impls : registerTool(name, impl)
  \/ \E c \in Calls, name \in Names, timeout \in CallerTimeouts,
        signal \in CallerSignals : executeTool(c, name, timeout, signal)
  \/ \E id \in 1..Len(att), behaviour \in ToolBehaviours : toolSettles(id, behaviour)
  \/ \E id \in 1..Len(att) : timerFires(id)
  \/ \E c \in Calls : externalAbort(c)
  \/ \E id \in 1..Len(att) : cancelExecution(id)
  \/ cancelAllExecutions
  \/ \E id \in 1..Len(att) : attemptCompletes(id)
  \/ \E c \in Calls : retryDelayElapsed(c)

Spec == Init /\ [][Next]_vars

\* Two logical calls in progress together on one ToolExecutor, one
\* ExecutionMonitor and one ErrorHandler; the callers pass { timeout: 0 }, so
\* no attempt arms a timer.
ConcTimeouts == {[given |-> TRUE, ms |-> 0]}

ConcBehaviours ==
  { Return(ToolResult(TRUE, "hi", NoMessage)),
    Return(ToolResult(FALSE, "", <<"not", "found">>)),
    Throw(RawError(<<"connect", "ECONNREFUSED">>)) }

ConcInit == InitWith(ConcCalls)

ConcNext ==
  \/ \E name \in RegisteredNames, impl \in Impls : registerTool(name, impl)
  \/ \E c \in ConcCalls, name \in RegisteredNames, timeout \in ConcTimeouts :
        executeTool(c, name, timeout, "none")
  \/ \E id \in 1..Len(att), behaviour \in ConcBehaviours : toolSettles(id, behaviour)
  \/ \E id \in 1..Len(att) : cancelExecution(id)
  \/ cancelAllExecutions
  \/ \E id \in 1..Len(att) : attemptCompletes(id)
  \/ \E c \in ConcCalls : retryDelayElapsed(c)

ConcSpec == ConcInit /\ [][ConcNext]_vars

\* The registry: two names, two tool objects per name, and calls that run
\* whatever is registered.
RegistryImpls == {"v1", "v2"}

RegistryBehaviours ==
  { Return(ToolResult(TRUE, "hi", NoMessage)),
    Throw(ValidationError(<<"bad", "input">>)) }

RegistryNext ==
  \/ \E name \in Names, impl \in RegistryImpls : registerTool(name, impl)
  \/ \E c \in ConcCalls, name \in Names, timeout \in ConcTimeouts :
        executeTool(c, name, timeout, "none")
  \/ \E id \in 1..Len(att), behaviour \in RegistryBehaviours : toolSettles(id, behaviour)
  \/ \E id \in 1..Len(att) : attemptCompletes(id)

RegistrySpec == ConcInit /\ [][RegistryNext]_vars

\* One call that always passes a signal, live or aborted before the call.
PassedSignals == {"live", "aborted"}

SignalNext ==
  \/ \E name \in RegisteredNames, impl \in Impls : registerTool(name, impl)
  \/ \E c \in Calls, name \in RegisteredNames, timeout \in CallerTimeouts,
        signal \in PassedSignals : executeTool(c, name, timeout, signal)
  \/ \E id \in 1..Len(att), behaviour \in ToolBehaviours : toolSettles(id, behaviour)
  \/ \E id \in 1..Len(att) : timerFires(id)
  \/ \E c \in Calls : externalAbort(c)
  \/ \E id \in 1..Len(att) : attemptCompletes(id)
  \/ \E c \in Calls : retryDelayElapsed(c)

SignalSpec == Init /\ [][SignalNext]_vars

\* Two calls in progress together whose attempts are cancelled only by
\* cancelAllExecutions; the event loop runs every queued continuation.
CancelAllBehaviours ==
  { Return(ToolResult(TRUE, "hi", NoMessage)),
    Throw(RawError(<<"connect", "ECONNREFUSED">>)) }

CancelAllNext ==
  \/ \E name \in RegisteredNames, impl \in Impls : registerTool(name, impl)
  \/ \E c \in ConcCalls, name \in RegisteredNames, timeout \in ConcTimeouts :
        executeTool(c, name, timeout, "none")
  \/ \E id \in 1..Len(att), behaviour \in CancelAllBehaviours : toolSettles(id, behaviour)
  \/ cancelAllExecutions
  \/ \E id \in 1..Len(att) : attemptCompletes(id)
  \/ \E c \in ConcCalls : retryDelayElapsed(c)

MaxConcAttempts == Cardinality(ConcCalls) * (toolRetryConfig.maxRetries + 1)

CancelAllSpec ==
  /\ ConcInit /\ [][CancelAllNext]_vars
  /\ \A id \in 1..MaxConcAttempts : WF_vars(attemptCompletes(id))

\* The event loop runs every timer callback that is due and every queued
\* continuation: weak fairness of the timer and of the continuation steps.
FairSpec ==
  /\ Spec
  /\ \A id \in 1..(toolRetryConfig.maxRetries + 1) :
       WF_vars(timerFires(id)) /\ WF_vars(attemptCompletes(id))

\* ---------------------------------------------------- scheduler alone
\* A ParallelExecutor constructed with some options, and one execute() call.
BatchInit ==
  \E options \in BatchOptions :
    /\ EngineInit(Calls)
    /\ executor = newParallelExecutor(options)
    /\ batches = [b \in BatchCalls |-> idleBatch]
    /\ runs = <<>>
    /\ classified = <<>>

BatchNext ==
  \/ \E b \in BatchCalls, tasks \in TaskLists : execute(b, tasks)
  \/ \E r \in 1..Len(runs), behaviour \in TaskBehaviours : taskSettles(r, behaviour)
  \/ \E r \in 1..Len(runs) : taskTimerFires(r)
  \/ \E r \in 1..Len(runs) : taskCompletes(r)
  \/ \E b \in BatchCalls : executeReturns(b)

BatchSpec == BatchInit /\ [][BatchNext]_vars

\* One execute() call whose tasks carry no priority.
PlainBatchNext ==
  \/ \E b \in BatchCalls, tasks \in PlainTaskLists : execute(b, tasks)
  \/ \E r \in 1..Len(runs), behaviour \in TaskBehaviours : taskSettles(r, behaviour)
  \/ \E r \in 1..Len(runs) : taskTimerFires(r)
  \/ \E r \in 1..Len(runs) : taskCompletes(r)
  \/ \E b \in BatchCalls : executeReturns(b)

\* The event loop runs every timer callback that is due and every queued
\* continuation; nothing obliges a task's operation to settle.
FairBatchSpec ==
  /\ BatchInit /\ [][PlainBatchNext]_vars
  /\ \A r \in 1..MaxTasks :
       WF_vars(taskTimerFires(r)) /\ WF_vars(taskCompletes(r))
  /\ \A b \in BatchCalls : WF_vars(executeReturns(b))

\* ------------------------------------- two calls on one scheduler
\* One ParallelExecutor, the shared globalParallelExecutor or one with two
\* slots, and two execute() calls that may overlap.
OverlapInit ==
  /\ EngineInit(Calls)
  /\ executor \in {globalParallelExecutor,
                   newParallelExecutor([maxConcurrency |-> 2, timeout |-> 0,
                                        stopOnError |-> FALSE])}
  /\ batches = [b \in OverlapCalls |-> idleBatch]
  /\ runs = <<>>
  /\ classified = <<>>

OverlapNext ==
  \/ \E b \in OverlapCalls : \E tasks \in OverlapTaskLists(b) : execute(b, tasks)
  \/ \E r \in 1..Len(runs), behaviour \in TaskBehaviours : taskSettles(r, behaviour)
  \/ \E r \in 1..Len(runs) : taskTimerFires(r)
  \/ \E r \in 1..Len(runs) : taskCompletes(r)
  \/ \E b \in OverlapCalls : executeReturns(b)

OverlapSpec == OverlapInit /\ [][OverlapNext]_vars

\* ------------------------------------------- a long-running monitor
\* how many attempts the monitor has completed before the behaviour starts
PastAttempts == (maxHistorySize - 2)..(maxHistorySize + 1)

\* an attempt of an earlier executeTool call, made with { timeout: 0 }, whose
\* tool returned a successful outcome
pastAttempt ==
  LET started == newAttempt("past", "echo", "v1", 0, "none")
      settled == [started EXCEPT !.op = "settled",
                                 !.race = Return(ToolResult(TRUE, "hi", NoMessage))]
  IN  finishAttempt(settled)

\* the history after n attempts have completed one after another: the
\* records of the latest maxHistorySize of them
historyAfter(n) ==
  LET kept == Min(n, maxHistorySize)
  IN  [i \in 1..kept |-> n - kept + i]

\* The engine after many calls have come and gone: the history is at or near
\* its capacity and nothing is in flight.
HistoryInit ==
  \E n \in PastAttempts :
    /\ tools = MapSet(<<>>, "echo", "v1")
    /\ errorLogs = <<>>
    /\ executionHistory = historyAfter(n)
    /\ activeExecutions = {}
    /\ att = [i \in 1..n |-> pastAttempt]
    /\ calls = [c \in Calls |-> idleCall]
    /\ cancels = noCancels
    /\ registered = [name \in Names |-> IF name = "echo" THEN "v1" ELSE NoTool]
    /\ executor = globalParallelExecutor
    /\ batches = [b \in BatchCalls |-> idleBatch]
    /\ runs = <<>>
    /\ classified = <<>>

\* the attempts made in this behaviour: the past ones have all completed
newAttempts == {id \in 1..Len(att) : att[id].call \in Calls}

HistoryNext ==
  \/ \E c \in Calls, timeout \in ConcTimeouts : executeTool(c, "echo", timeout, "none")
  \/ \E id \in newAttempts, behaviour \in ConcBehaviours : toolSettles(id, behaviour)
  \/ \E id \in newAttempts : cancelExecution(id)
  \/ \E id \in newAttempts : attemptCompletes(id)
  \/ \E c \in Calls : retryDelayElapsed(c)

HistorySpec == HistoryInit /\ [][HistoryNext]_vars

\* -------------------------------------------- retry coordinator alone
\* handleWithRetry(operation, config) up to its first await: the operation
\* is called for attempt 0
handleWithRetry(c, retryConfig) ==
  /\ calls[c].pc = "idle"
  /\ calls' = [calls EXCEPT ![c] =
       [@ EXCEPT !.pc = "running", !.retryConfig = retryConfig,
                 !.attempt = 0, !.currentDelay = retryConfig.initialDelayMs]]
  /\ UNCHANGED <<tools, errorLogs, executionHistory, activeExecutions, att,
                 cancels, schedulerVars, classified, registered>>

\* the operation resolves: handleWithRetry returns its value
operationReturns(c, value) ==
  /\ calls[c].pc = "running"
  /\ calls' = [calls EXCEPT ![c] =
       [@ EXCEPT !.pc = "done", !.completion = Return(value)]]
  /\ UNCHANGED <<tools, errorLogs, executionHistory, activeExecutions, att,
                 cancels, schedulerVars, classified, registered>>

\* the operation rejects: the catch block of the loop
operationThrows(c, error) ==
  /\ calls[c].pc = "running"
  /\ LET cr == calls[c]
         decision == retryDecision(cr.retryConfig, error, cr.attempt)
     IN  CASE decision = "rethrow" ->
                /\ calls' = [calls EXCEPT ![c] =
                     [cr EXCEPT !.pc = "done", !.completion = Throw(error)]]
                /\ UNCHANGED errorLogs
           [] decision = "giveup" ->
                /\ calls' = [calls EXCEPT ![c] =
                     [cr EXCEPT !.pc = "done", !.completion = Throw(error)]]
                /\ errorLogs' = logError(errorLogs, error, <<cr.attempt>>)
           [] decision = "retry" ->
                /\ calls' = [calls EXCEPT ![c] =
                     [cr EXCEPT !.pc = "delay",
                                !.waits = Append(@, cr.currentDelay)]]
                /\ UNCHANGED errorLogs
  /\ UNCHANGED <<tools, executionHistory, activeExecutions, att,
                 cancels, schedulerVars, classified, registered>>

\* the delay elapses: the next delay is computed and the operation is called
\* again
delayElapsed(c) ==
  /\ calls[c].pc = "delay"
  /\ calls' = [calls EXCEPT ![c] =
       [@ EXCEPT !.pc = "running",
                 !.attempt = @ + 1,
                 !.currentDelay = nextDelay(calls[c].retryConfig, @)]]
  /\ UNCHANGED <<tools, errorLogs, executionHistory, activeExecutions, att,
                 cancels, schedulerVars, classified, registered>>

\* handleWithRetry around an operation of the caller's, which returns a
\* value or throws one of the errors a tool throws.
RetryNext ==
  \/ \E c \in DOMAIN calls, retryConfig \in RetryConfigs : handleWithRetry(c, retryConfig)
  \/ \E c \in DOMAIN calls : operationReturns(c, ToolResult(TRUE, "hi", NoMessage))
  \/ \E c \in DOMAIN calls, error \in ThrowableErrors : operationThrows(c, error)
  \/ \E c \in DOMAIN calls : delayElapsed(c)

\* two callers use the coordinator at once
RetrySpec == InitWith(ConcCalls) /\ [][RetryNext]_vars

\* ------------------------------------------------ a long error log
\* how many errors the handler has logged before the behaviour starts
PastLogs == (ErrorLogCapacity - 3)..ErrorLogCapacity

\* the entry of the i-th error logged earlier, a retry give-up after attempt i
pastErrorLog(i) == logError(<<>>, RawError(<<"boom">>), <<i>>)[1]

\* the entries logged in this behaviour: logError is called without retryCount
newErrorLogs == {i \in 1..Len(errorLogs) : errorLogs[i].retryCount = NoRetryCount}

LogInit ==
  \E n \in PastLogs :
    /\ tools = <<>>
    /\ errorLogs = [i \in 1..n |-> pastErrorLog(i)]
    /\ executionHistory = <<>>
    /\ activeExecutions = {}
    /\ att = <<>>
    /\ calls = [c \in Calls |-> idleCall]
    /\ cancels = noCancels
    /\ registered = [name \in Names |-> NoTool]
    /\ executor = globalParallelExecutor
    /\ batches = [b \in BatchCalls |-> idleBatch]
    /\ runs = <<>>
    /\ classified = <<>>

\* a caller's logError(error) call, its in-memory part
callLogError(error) ==
  /\ Cardinality(newErrorLogs) < MaxLogCalls
  /\ errorLogs' = logError(errorLogs, error, NoRetryCount)
  /\ UNCHANGED <<tools, executionHistory, activeExecutions, att, calls, cancels,
                 registered, schedulerVars, classified>>

LogNext == \E error \in ThrowableErrors : callLogError(error)

LogSpec == LogInit /\ [][LogNext]_vars

\* ------------------------------------------------- classifier alone
\* a call of errorHandler.categorizeError(error)
callCategorizeError(error) ==
  /\ classified' = <<[input |-> error, output |-> categorizeError(error)]>>
  /\ UNCHANGED <<engineVars, schedulerVars>>

\* the error categorizeError returned is passed to categorizeError again, as
\* logError does with the error handleWithRetry hands it
categorizeAgain ==
  /\ classified # <<>>
  /\ callCategorizeError(classified[1].output)

\* The embedding program classifies a raw error or an error it built with
\* one of the error classes, and may classify the result again.
ClassifyNext ==
  \/ classified = <<>> /\ \E error \in RawErrors : callCategorizeError(error)
  \/ classified = <<>> /\ \E error \in ClassifiedErrors : callCategorizeError(error)
  \/ categorizeAgain

ClassifySpec == Init /\ [][ClassifyNext]_vars

\* ------------------------------------------------------------ properties
\* the most attempts one logical call makes under executeTool's policy
attemptsPerCall == toolRetryConfig.maxRetries + 1

\* the attempts of logical call c, oldest first
attemptsOf(c) == [i \in 1..Len(calls[c].ids) |-> att[calls[c].ids[i]]]

\* the records of the history that belong to logical call c, as ids
recordsOf(c) == SelectSeq(executionHistory, LAMBDA id : att[id].call = c)

\* how many records of the history are the record of attempt id
recordCount(id) ==
  Cardinality({i \in 1..Len(executionHistory) : executionHistory[i] = id})

\* attempt a ended by throwing the tool's error to the Retry Coordinator
threw(a) == a.completed /\ a.outcome.kind = "throw"

threwRetryable(a) == threw(a) /\ categorizeError(a.outcome.error).retryable

\* attempt a ended by returning the tool's own successful outcome
succeeded(a) == a.completed /\ a.race.kind = "return" /\ a.race.value.success

\* logical call c ran into one of the failing paths
failingPath(c) ==
  \/ calls[c].ids = <<>>
  \/ LET a == att[calls[c].ids[Len(calls[c].ids)]]
     IN  a.race.kind \in {"throw", "abort"}
         \/ (a.race.kind = "return" /\ ~a.race.value.success)

\* the word that follows `label` in a formatted error text
fieldAfter(message, label) ==
  LET i == CHOOSE i \in 1..(Len(message) - 1) : message[i] = label
  IN  message[i + 1]

\* C1: executeTool never propagates an exception: every call that has
\* completed has returned a ToolOutcome, and on every failing path (registry
\* miss, failed outcome, thrown error, timeout, cancellation) that outcome
\* has success = false.
C1_NoExceptionEscapes ==
  \A c \in DOMAIN calls :
    calls[c].pc = "done" =>
      /\ calls[c].completion.kind = "return"
      /\ failingPath(c) => ~calls[c].completion.value.success

\* a call that gave up after three throwing attempts has returned
C1_Witness ==
  \E c \in DOMAIN calls :
    /\ calls[c].pc = "done"
    /\ Len(calls[c].ids) = 3
    /\ threw(att[calls[c].ids[3]])
    /\ calls[c].completion.kind = "return"

\* C2: an invocation of a name that is not in the registry returns
\* {success: false, errorMessage: "Unknown tool: <name>"} in its first step,
\* with no attempt, no record appended and the active table unchanged.
C2_UnknownToolNoAttempt ==
  [][\A c \in DOMAIN calls, name \in Names :
       (calls[c].pc = "idle" /\ calls'[c].pc # "idle"
        /\ calls'[c].toolName = name /\ ~MapHas(tools, name))
       => /\ calls'[c].pc = "done"
          /\ calls'[c].completion =
               Return(ToolResult(FALSE, "", <<"Unknown", "tool:", name>>))
          /\ calls'[c].ids = <<>>
          /\ calls'[c].attempt = 0
          /\ att' = att
          /\ executionHistory' = executionHistory
          /\ activeExecutions' = activeExecutions]_vars

\* an unknown name was invoked while another name was registered
C2_Witness ==
  \E c \in DOMAIN calls :
    /\ calls[c].pc = "done"
    /\ calls[c].ids = <<>>
    /\ ~MapHas(tools, calls[c].toolName)
    /\ Len(tools) > 0

\* C3: a tool that throws a retryable-classified error on its first N
\* attempts (N <= maxRetries) and then succeeds: the call waits for a retry
\* after each of the N throws, N+1 records are appended (N failed, then one
\* succeeded), no attempt follows the successful one, and executeTool
\* returns the successful outcome of the last attempt.
C3_RetryThenSucceed ==
  \A c \in DOMAIN calls :
    LET as == attemptsOf(c)
        k == Len(as)
    IN  /\ (k >= 1 /\ k <= toolRetryConfig.maxRetries
            /\ \A i \in 1..k : threwRetryable(as[i]))
           => calls[c].pc = "delay"
        /\ \A j \in 1..k : succeeded(as[j]) => j = k
        /\ (k >= 1 /\ succeeded(as[k]) /\ \A i \in 1..(k - 1) : threwRetryable(as[i]))
           => /\ k <= toolRetryConfig.maxRetries + 1
              /\ calls[c].pc = "done"
              /\ calls[c].completion = Return(as[k].race.value)
              /\ calls[c].completion.value.success
              /\ recordsOf(c) = calls[c].ids
              /\ \A i \in 1..k : as[i].success <=> (i = k)

\* two retryable throws, then success on the third attempt
C3_Witness ==
  \E c \in DOMAIN calls :
    /\ calls[c].pc = "done"
    /\ Len(calls[c].ids) = 3
    /\ threwRetryable(att[calls[c].ids[1]])
    /\ threwRetryable(att[calls[c].ids[2]])
    /\ succeeded(att[calls[c].ids[3]])
    /\ Len(executionHistory) = 3

\* C4: Error("ECONNREFUSED") is classified Network/High/retryable, and a
\* call whose every attempt throws a retryable-classified error makes
\* exactly maxRetries+1 attempts (three under executeTool's policy), each
\* with a failed record, before it fails; never more.
C4_RetryExhaustion ==
  \A c \in DOMAIN calls :
    LET as == attemptsOf(c)
        k == Len(as)
    IN  /\ k <= toolRetryConfig.maxRetries + 1
        /\ \A i \in 1..k :
             (threw(as[i]) /\ ~as[i].outcome.error.isAgentError
              /\ Includes(as[i].outcome.error.message, "ECONNREFUSED"))
             => LET e == categorizeError(as[i].outcome.error)
                IN  e.category = "network" /\ e.severity = "high" /\ e.retryable
        /\ (k >= 1 /\ \A i \in 1..k : threwRetryable(as[i]))
           => /\ calls[c].pc = "done" <=> k = toolRetryConfig.maxRetries + 1
              /\ calls[c].pc = "done"
                 => /\ k = 3
                    /\ calls[c].completion.kind = "return"
                    /\ ~calls[c].completion.value.success
                    /\ recordsOf(c) = calls[c].ids
                    /\ \A i \in 1..k : ~as[i].success

\* three attempts threw ECONNREFUSED and the call has failed
C4_Witness ==
  \E c \in DOMAIN calls :
    /\ calls[c].pc = "done"
    /\ Len(calls[c].ids) = 3
    /\ \A i \in 1..3 :
         /\ threwRetryable(att[calls[c].ids[i]])
         /\ Includes(att[calls[c].ids[i]].outcome.error.message, "ECONNREFUSED")
    /\ ~calls[c].completion.value.success

\* C5: a tool that throws an error the Error Classifier classifies as
\* non-retryable (pre-classified, or a raw error whose message maps to the
\* System default) gets exactly one attempt: the call is over after the
\* first failure and no second attempt is ever started.
C5_NonRetryableOneAttempt ==
  \A c \in DOMAIN calls :
    LET as == attemptsOf(c)
    IN  (Len(as) >= 1 /\ threw(as[1])
         /\ ~categorizeError(as[1].outcome.error).retryable)
        => Len(as) = 1 /\ calls[c].pc = "done"

\* C6: when the Retry Coordinator finally fails, the category and severity
\* reported in the returned errorMessage are those the Error Classifier
\* assigns to the error the tool threw.
C6_OutcomeReflectsClassification ==
  \A c \in DOMAIN calls :
    LET as == attemptsOf(c)
        k == Len(as)
    IN  (calls[c].pc = "done" /\ k >= 1 /\ threw(as[k]))
        => LET e == categorizeError(as[k].outcome.error)
               text == calls[c].completion.value.errorMessage
           IN  /\ fieldAfter(text, "Category:") = e.category
               /\ fieldAfter(text, "Severity:") = e.severity

\* C7: an attempt whose timer fires before its tool has settled returns,
\* without throwing, a failed outcome that says it timed out after T ms; the
\* record appended for it has timedOut = true and success = false, and its
\* id has left the Active Execution Table when it returns.  Every attempt
\* that armed a timer eventually returns.
C7_TimeoutReturnsFailure ==
  /\ [][\A id \in 1..attemptsPerCall :
          (id <= Len(att) /\ ~att[id].completed /\ att[id].timer = "fired"
           /\ att'[id].completed)
          => /\ att'[id].outcome =
                  Return(ToolResult(FALSE, "", timeoutMessage(att[id].timeoutMs)))
             /\ att'[id].timedOut
             /\ ~att'[id].success
             /\ executionHistory' = Append(executionHistory, id)
             /\ id \notin activeExecutions']_vars
  /\ \A id \in 1..attemptsPerCall :
       (id <= Len(att) /\ att[id].timer = "armed" /\ ~att[id].completed)
         ~> (id <= Len(att) /\ att[id].completed /\ id \notin activeExecutions)

\* a tool that never settled was timed out after 50 ms
C7_Witness ==
  \E id \in 1..Len(att) :
    /\ att[id].completed
    /\ att[id].op = "pending"
    /\ att[id].timeoutMs = 50
    /\ att[id].outcome = Return(ToolResult(FALSE, "", timeoutMessage(50)))
    /\ att[id].timedOut
    /\ id \notin activeExecutions

\* C8: cancelExecution(id) returns true at most once for an id: a second
\* call on the same id returns false whenever it is made.
C8_CancelTrueOnce ==
  \A id \in 1..Len(att) : att[id].cancelledTrue <= 1

\* C9: every attempt appends exactly one record, whichever branch ends it,
\* and nothing that happens after the attempt has ended (the abandoned
\* operation settling, a late timer, a late cancel) appends another.
C9_OneRecordPerAttempt ==
  /\ \A i \in 1..Len(executionHistory) : executionHistory[i] \in 1..Len(att)
  /\ \A id \in 1..Len(att) :
       recordCount(id) = IF att[id].completed THEN 1 ELSE 0

\* an operation abandoned by a timeout or a cancellation settled afterwards
C9_Witness ==
  \E id \in 1..Len(att) :
    /\ att[id].completed
    /\ att[id].race.kind = "abort"
    /\ att[id].op = "settled"
    /\ recordCount(id) = 1

\* C10: an executionId is in the Active Execution Table iff its attempt has
\* started and has not completed, on every path; so the table is empty
\* whenever no attempt is in flight.
C10_ActiveIffInFlight ==
  /\ activeExecutions = {id \in 1..Len(att) : ~att[id].completed}
  /\ (\A id \in 1..Len(att) : att[id].completed) => activeExecutions = {}

\* the tool threw, the entry is gone, and the call waits for its retry
C10_Witness ==
  \E c \in DOMAIN calls :
    /\ calls[c].pc = "delay"
    /\ threw(att[calls[c].ids[1]])
    /\ activeExecutions = {}

\* C15: when a registered tool succeeds on its first attempt, executeTool
\* returns the tool's own outcome, the call makes that one attempt only, and
\* the history holds exactly one record of the call, carrying the tool's name
\* and marked succeeded.
C15_FirstAttemptSuccess ==
  \A c \in DOMAIN calls :
    (calls[c].ids # <<>> /\ succeeded(att[calls[c].ids[1]])) =>
      LET id == calls[c].ids[1]
          a == att[id]
      IN  /\ MapHas(tools, calls[c].toolName)
          /\ calls[c].pc = "done"
          /\ calls[c].completion = Return(a.race.value)
          /\ calls[c].completion.value.success
          /\ calls[c].ids = <<id>>
          /\ recordsOf(c) = <<id>>
          /\ a.toolName = calls[c].toolName
          /\ a.success

C15_Witness ==
  \E c \in DOMAIN calls :
    /\ calls[c].toolName = "echo"
    /\ calls[c].completion = Return(ToolResult(TRUE, "hi", NoMessage))
    /\ recordsOf(c) = calls[c].ids
    /\ Len(calls[c].ids) = 1

\* attempt a ended in the catch block's cancellation / timeout branch:
\* metrics.error carries the timeout or the cancellation message
endedByAbort(a) ==
  a.completed /\ a.error \in {timeoutMessage(a.timeoutMs), cancelledMessage}

\* C16: an attempt that ended by timeout or cancellation is never retried: it
\* is the last attempt of its logical call, it has one record, and executeTool
\* has returned its failed outcome; every attempt that was followed by
\* another one ended with an exception thrown by the tool itself.
C16_AbortNeverRetried ==
  \A c \in DOMAIN calls :
    \A i \in 1..Len(calls[c].ids) :
      LET id == calls[c].ids[i]
          a == att[id]
      IN  /\ endedByAbort(a) =>
               /\ i = Len(calls[c].ids)
               /\ calls[c].pc = "done"
               /\ calls[c].completion = Return(ToolResult(FALSE, "", a.error))
               /\ recordCount(id) = 1
          /\ i < Len(calls[c].ids) =>
               /\ threw(a)
               /\ a.race.kind = "throw"
               /\ ~endedByAbort(a)

C16_Witness ==
  \E c \in DOMAIN calls :
    /\ Len(calls[c].ids) = 1
    /\ att[calls[c].ids[1]].timedOut
    /\ endedByAbort(att[calls[c].ids[1]])
    /\ calls[c].pc = "done"

\* the attempts of logical call c that are in the table of active executions
inFlightOf(c) == {i \in 1..Len(calls[c].ids) : calls[c].ids[i] \in activeExecutions}

\* C17: within one logical call no two attempts are in flight at once: every
\* attempt but the newest has completed, has left the table and has its
\* record, and a further attempt starts only from the backoff wait that
\* followed the completion of the previous one.
C17_AttemptsSerialized ==
  /\ [](\A c \in DOMAIN calls :
          /\ Cardinality(inFlightOf(c)) <= 1
          /\ \A i \in 1..(Len(calls[c].ids) - 1) :
               /\ att[calls[c].ids[i]].completed
               /\ calls[c].ids[i] \notin activeExecutions
               /\ recordCount(calls[c].ids[i]) = 1)
  /\ [][\A c \in DOMAIN calls :
          (Len(calls'[c].ids) > Len(calls[c].ids) /\ calls[c].ids # <<>>) =>
            /\ calls[c].pc = "delay"
            /\ Len(calls[c].waits) = Len(calls[c].ids)
            /\ att[calls[c].ids[Len(calls[c].ids)]].completed]_vars

C17_Witness ==
  \E c \in DOMAIN calls, d \in DOMAIN calls :
    /\ c # d
    /\ Len(calls[c].ids) = 2
    /\ inFlightOf(c) = {2}
    /\ inFlightOf(d) # {}

\* the fields of the record of an attempt
metricsOf(a) ==
  [success |-> a.success, timedOut |-> a.timedOut, cancelled |-> a.cancelled,
   error |-> a.error, ended |-> a.ended, result |-> a.result]

\* C18: a record in the history is never mutated: no step changes a field of
\* a record that has been appended.
C18_RecordsImmutable ==
  [][\A i \in 1..Len(executionHistory) :
       metricsOf(att'[executionHistory[i]]) = metricsOf(att[executionHistory[i]])]_vars

\* C19: each attempt's record is appended to the end of the history by the
\* step that completes the attempt, so the history lists the attempts in the
\* order they completed, whatever the order they started in.
C19_CompletionOrder ==
  [][\A id \in 1..Len(att) :
       (~att[id].completed /\ att'[id].completed) =>
          executionHistory' = Append(executionHistory, id)]_vars

C19_Witness ==
  /\ Len(executionHistory) >= 2
  /\ executionHistory[1] > executionHistory[2]
  /\ att[executionHistory[1]].call # att[executionHistory[2]].call

networkMarkers == {"ECONNREFUSED", "ETIMEDOUT", "ENOTFOUND", "fetch failed"}
fileMarkersListed == {"ENOENT", "EACCES", "EPERM"}
modelMarkers == {"model", "API", "completion"}
toolMarkers == {"command", "execution", "spawn"}

\* the category the first matching rule gives, for a given set of file markers
firstMatch(message, fileMarkers) ==
  IF IncludesAny(message, networkMarkers) THEN "network"
  ELSE IF IncludesAny(message, fileMarkers) THEN "file_operation"
  ELSE IF IncludesAny(message, modelMarkers) THEN "model"
  ELSE IF IncludesAny(message, toolMarkers) THEN "tool_execution"
  ELSE "system"

\* C20: classification of a raw error leaves the error log and the rest of
\* the engine as they were, and the first matching rule wins, in the order
\* Network > FileOperation > Model > ToolExecution > System; the file markers
\* are ENOENT, EACCES, EPERM and "no such file".
C20_FirstMatchWins ==
  \A i \in 1..Len(classified) :
    /\ classified[i].output.isAgentError
    /\ ~classified[i].input.isAgentError =>
         classified[i].output.category =
           firstMatch(classified[i].input.message,
                      fileMarkersListed \cup {"no such file"})
    /\ errorLogs = <<>>
    /\ executionHistory = <<>>
    /\ executor = globalParallelExecutor

\* C20 as stated: the file markers are ENOENT, EACCES and EPERM only.
C20_ListedFileMarkersOnly ==
  \A i \in 1..Len(classified) :
    ~classified[i].input.isAgentError =>
      classified[i].output.category =
        firstMatch(classified[i].input.message, fileMarkersListed)

C20_Witness ==
  \E i \in 1..Len(classified) :
    /\ classified[i].input.message = <<"model", "ECONNREFUSED">>
    /\ classified[i].output.category = "network"

\* how many attempts have completed
completedCount == Cardinality({id \in 1..Len(att) : att[id].completed})

\* C11: the history never holds more than maxHistorySize records, and it is
\* a sliding window: with attempts completing one after another it holds the
\* records of the latest min(completed, maxHistorySize) attempts, oldest
\* first, so a push at capacity drops exactly the oldest record and keeps the
\* others in order.
C11_HistoryWindow ==
  LET len == Len(executionHistory)
  IN  /\ len <= maxHistorySize
      /\ len = Min(completedCount, maxHistorySize)
      /\ \A i \in 1..len : executionHistory[i] = completedCount - len + i

C11_Witness ==
  \E c \in DOMAIN calls :
    /\ calls[c].pc = "done"
    /\ Len(calls[c].ids) >= 2
    /\ Len(att) > maxHistorySize + 1
    /\ Len(executionHistory) = maxHistorySize
    /\ executionHistory[1] = Len(att) - maxHistorySize + 1
    /\ executionHistory[maxHistorySize] = Len(att)

\* the operations that have been called and whose promise has not settled
operationsInFlight == {r \in 1..Len(runs) : runs[r].op = "pending"}

\* the slots taken: the tasks executeTask has started and not finished
slotsTaken == {r \in 1..Len(runs) : ~runs[r].done}

\* the running counter is the number of slots taken, within the limit
SlotsWithinLimit ==
  /\ executor.running = Cardinality(slotsTaken)
  /\ executor.running <= executor.maxConcurrency

\* C12: at no instant are more than maxConcurrency operations started and not
\* yet completed, whether tasks succeed, fail or time out.
C12_OperationsWithinLimit ==
  Cardinality(operationsInFlight) <= executor.maxConcurrency

\* task i of execute() call b was never started
neverStarted(b, i) ==
  \A r \in 1..Len(runs) :
    ~(runs[r].batch = b /\ runs[r].task = batches[b].tasks[i].id)

\* C13: the list execute() returns has one result per input task, in input
\* order: results[i].id = tasks[i].id, whatever the options.
C13_ResultsInInputOrder ==
  \A b \in DOMAIN batches :
    batches[b].pc = "done" =>
      /\ Len(batches[b].returned) = Len(batches[b].tasks)
      /\ \A i \in 1..Len(batches[b].tasks) :
           /\ batches[b].returned[i].defined
           /\ batches[b].returned[i].id = batches[b].tasks[i].id

\* C14: with stopOnError, a task that was still queued when another task
\* failed is in the returned list as { success: false, error: "Execution
\* stopped" }, and its operation was not run.
C14_QueuedResolvedAsStopped ==
  \A b \in DOMAIN batches :
    (batches[b].pc = "done" /\ executor.stopOnError) =>
      \A i \in 1..Len(batches[b].tasks) :
        neverStarted(b, i) =>
          batches[b].returned[i] =
            ParallelResult(batches[b].tasks[i].id, FALSE, "undefined", stoppedError)

\* the severity and the retryability the specification gives each category
categoryDefaults ==
  [validation |-> <<"medium", FALSE>>, file_operation |-> <<"medium", TRUE>>,
   model |-> <<"high", TRUE>>, tool_execution |-> <<"medium", TRUE>>,
   network |-> <<"high", TRUE>>, parsing |-> <<"low", FALSE>>,
   context |-> <<"medium", TRUE>>, system |-> <<"critical", FALSE>>]

\* C21: every classified error, whether categorizeError built it or the
\* program did with one of the error classes, carries the severity and the
\* retryability of its category.
C21_CategoryDefaults ==
  \A i \in 1..Len(classified) :
    LET e == classified[i].output
    IN  /\ e.category \in DOMAIN categoryDefaults
        /\ <<e.severity, e.retryable>> = categoryDefaults[e.category]

C21_Witness ==
  \E i \in 1..Len(classified) :
    /\ ~classified[i].input.isAgentError
    /\ classified[i].input.message = <<"boom">>
    /\ classified[i].output.category = "system"
    /\ classified[i].output.severity = "critical"
    /\ ~classified[i].output.retryable

\* C22: categorizeError returns an already classified error as it is, also
\* when its message matches the rule of another category, so classifying
\* the result of a classification changes nothing.
C22_Idempotent ==
  \A i \in 1..Len(classified) :
    classified[i].input.isAgentError =>
      classified[i].output = classified[i].input

C22_Witness ==
  \E i \in 1..Len(classified) :
    /\ classified[i].input = ValidationError(<<"ECONNREFUSED">>)
    /\ classified[i].output.category = "validation"
    /\ ~classified[i].output.retryable

\* C23: when the abort signal of an attempt fires before the tool has settled
\* and before the timer, by cancelExecution, cancelAllExecutions or the
\* caller's signal, the attempt returns the "was cancelled" failure and the
\* record it appends has cancelled set and timedOut not set.
C23_CancelledRecord ==
  [][\A id \in 1..Len(att) :
       (/\ ~att[id].completed
        /\ att'[id].completed
        /\ att[id].race.kind = "abort"
        /\ ~att[id].timedOut) =>
          /\ att'[id].outcome = Return(ToolResult(FALSE, "", cancelledMessage))
          /\ recordCount(id)' = 1
          /\ att'[id].cancelled
          /\ ~att'[id].timedOut]_vars

\* the part of C23 that does not depend on the cancelled flag
CancelReturnsFailure ==
  [][\A id \in 1..Len(att) :
       (/\ ~att[id].completed
        /\ att'[id].completed
        /\ att[id].race.kind = "abort"
        /\ ~att[id].timedOut) =>
          /\ att'[id].outcome = Return(ToolResult(FALSE, "", cancelledMessage))
          /\ recordCount(id)' = 1
          /\ ~att'[id].timedOut]_vars

\* a task of the batch has failed under stopOnError
stopFlagged ==
  /\ executor.stopOnError
  /\ \E id \in DOMAIN executor.results : ~executor.results[id].success

\* the result executeTask records for a started task, from the way the
\* promise of executeWithTimeout settled
outcomeOf(run) ==
  IF run.wrapper.kind = "resolved"
  THEN ParallelResult(run.task, TRUE, run.wrapper.value, "undefined")
  ELSE ParallelResult(run.task, FALSE, "undefined", run.wrapper.error)

\* C24: with stopOnError, from the step that records a task's failure on no
\* further operation is started, and every task that was started, also one
\* that finishes after the failure, has its own outcome in the returned list.
C24_StopStartsNothing ==
  /\ [][stopFlagged' => Len(runs') = Len(runs)]_vars
  /\ [](\A b \in DOMAIN batches :
          (batches[b].pc = "done" /\ executor.stopOnError) =>
            \A r \in 1..Len(runs), i \in 1..Len(batches[b].tasks) :
              (runs[r].batch = b /\ batches[b].tasks[i].id = runs[r].task) =>
                batches[b].returned[i] = outcomeOf(runs[r]))

C24_Witness ==
  \E b \in DOMAIN batches :
    /\ batches[b].pc = "done"
    /\ stopFlagged
    /\ executor.maxConcurrency = 2
    /\ Len(batches[b].tasks) = 3
    /\ Len(runs) = 2
    /\ \E r \in 1..Len(runs) : runs[r].wrapper.kind = "resolved"

\* task i of execute() call b has been started
started(b, i) == ~neverStarted(b, i)

\* the place of task i of call b in the order the operations were started
startPlace(b, i) ==
  CHOOSE r \in 1..Len(runs) :
    runs[r].batch = b /\ runs[r].task = batches[b].tasks[i].id

\* task i of call b goes before task j: higher priority, or the same
\* priority and earlier in the input list; a missing priority counts as 0
goesBefore(b, i, j) ==
  LET pi == IF batches[b].tasks[i].priority.given
            THEN batches[b].tasks[i].priority.value ELSE 0
      pj == IF batches[b].tasks[j].priority.given
            THEN batches[b].tasks[j].priority.value ELSE 0
  IN  pi > pj \/ (pi = pj /\ i < j)

\* C25: within one execute() call the operations are started in priority
\* order, ties in input order: when a task has been started, every task
\* that goes before it was started earlier.
C25_PriorityOrder ==
  \A b \in DOMAIN batches :
    \A i \in 1..Len(batches[b].tasks), j \in 1..Len(batches[b].tasks) :
      (goesBefore(b, i, j) /\ started(b, j)) =>
        /\ started(b, i)
        /\ startPlace(b, i) < startPlace(b, j)

C25_Witness ==
  \E b \in DOMAIN batches :
    /\ Len(batches[b].tasks) = 3
    /\ ~batches[b].tasks[1].priority.given
    /\ batches[b].tasks[2].priority.given
    /\ batches[b].tasks[3].priority.given
    /\ Len(runs) = 3
    /\ runs[1].task = "task-1"
    /\ runs[2].task = "task-2"
    /\ runs[3].task = "task-0"
    /\ executor.maxConcurrency = 1

\* C26: while the stop flag is not set and the queue is not empty, the
\* number of tasks in flight is maxConcurrency; a step that finishes a task
\* (success, failure or timeout) and leaves the flag unset takes the next
\* task off the queue and starts it, so the count stays at the limit.
C26_Saturated ==
  /\ []((~executor.shouldStop /\ executor.queue # <<>>) =>
          /\ executor.running = executor.maxConcurrency
          /\ Cardinality(slotsTaken) = executor.maxConcurrency)
  /\ [][\A r \in 1..Len(runs) :
          (/\ ~runs[r].done
           /\ runs'[r].done
           /\ ~executor'.shouldStop
           /\ executor.queue # <<>>) =>
             /\ executor'.queue = Tail(executor.queue)
             /\ Len(runs') = Len(runs) + 1
             /\ runs'[Len(runs')].task = Head(executor.queue).id
             /\ executor'.running = executor.running]_vars

C26_Witness ==
  /\ executor.maxConcurrency = 1
  /\ executor.running = 1
  /\ Len(executor.queue) = 1
  /\ ~executor.shouldStop
  /\ Len(runs) = 2
  /\ runs[1].done
  /\ runs[1].timer = "fired"

\* the i-th wait of handleWithRetry as the specification gives it
RECURSIVE expectedWait(_, _)
expectedWait(retryConfig, i) ==
  IF i = 1 THEN retryConfig.initialDelayMs
  ELSE IF retryConfig.exponentialBackoff
       THEN Min(2 * expectedWait(retryConfig, i - 1), retryConfig.maxDelayMs)
       ELSE retryConfig.initialDelayMs

\* C27: the first wait of handleWithRetry is initialDelayMs; with
\* exponentialBackoff each later wait is min(2 x the previous one,
\* maxDelayMs), without it every wait is initialDelayMs; one wait follows
\* each attempt but the last, so none follows a success, a non-retryable
\* error or the last permitted attempt.
C27_BackoffWaits ==
  \A c \in DOMAIN calls :
    LET cr == calls[c]
    IN  /\ \A i \in 1..Len(cr.waits) :
             cr.waits[i] = expectedWait(cr.retryConfig, i)
        /\ Len(cr.waits) <= cr.retryConfig.maxRetries
        /\ cr.pc \in {"running", "done"} => Len(cr.waits) = cr.attempt
        /\ cr.pc = "delay" => Len(cr.waits) = cr.attempt + 1
        /\ cr.retryConfig = toolRetryConfig =>
             cr.waits \in {<<>>, <<500>>, <<500, 1000>>}

C27_Witness ==
  \E c \in DOMAIN calls :
    /\ calls[c].pc = "done"
    /\ calls[c].completion.kind = "return"
    /\ calls[c].retryConfig.maxDelayMs = 1500
    /\ calls[c].waits = <<1000, 1500, 1500>>

C28_ToolErrorPropagates ==
  [][\A id \in 1..Len(att) :
       (/\ ~att[id].completed
        /\ att'[id].completed
        /\ att[id].race.kind = "throw"
        /\ ~att[id].aborted) =>
          LET error == att[id].race.error
              c == att[id].call
          IN  /\ att'[id].outcome = Throw(error)
              /\ \/ calls'[c].pc = "delay"
                 \/ /\ calls'[c].pc = "done"
                    /\ calls'[c].completion =
                         executeToolCatch(calls[c].toolName, error)
              /\ recordCount(id) = 0
              /\ recordCount(id)' = 1
              /\ executionHistory'[Len(executionHistory')] = id
              /\ ~att'[id].success
              /\ att'[id].error = error.message
              /\ ~att'[id].timedOut
              /\ ~att'[id].cancelled
              /\ id \in activeExecutions
              /\ id \notin activeExecutions']_vars

C28_Witness ==
  \E id \in 1..Len(att) :
    /\ att[id].completed
    /\ att[id].race.kind = "throw"
    /\ att[id].outcome.kind = "throw"
    /\ att[id].error = att[id].race.error.message
    /\ ~att[id].timedOut
    /\ ~att[id].cancelled
    /\ recordCount(id) = 1
    /\ id \notin activeExecutions
    /\ calls[att[id].call].pc = "delay"

\* every call returns a defined result for each of its own tasks, and only
\* for those
OwnResultsReturned ==
  \A b \in DOMAIN batches :
    batches[b].pc = "done" =>
      /\ Len(batches[b].returned) = Len(batches[b].tasks)
      /\ \A i \in 1..Len(batches[b].tasks) :
           /\ batches[b].returned[i].defined
           /\ batches[b].returned[i].id = batches[b].tasks[i].id

\* the running counter is never negative
RunningNotNegative == executor.running >= 0

\* C29: overlapping execute() calls on one ParallelExecutor do not interfere:
\* each call returns a defined result for every one of its own tasks and only
\* those, the running counter is never negative, and the operations in flight
\* on the instance never exceed maxConcurrency.
C29_OverlapIsolated ==
  /\ OwnResultsReturned
  /\ RunningNotNegative
  /\ Cardinality(operationsInFlight) <= executor.maxConcurrency

\* the r-th started task has recorded its result and freed its slot
taskFinished(r) ==
  /\ r \in 1..Len(runs)
  /\ runs[r].done
  /\ runs[r].task \in DOMAIN executor.results

\* C30: every execute() call eventually returns, whatever the task list and
\* the options and even when operations never settle: the timeout of the
\* instance is never zero, every started task has its timer armed until its
\* promise settles, every started task eventually records its result and
\* frees its slot, and the call then returns.
C30_BatchTerminates ==
  /\ [](executor.timeout > 0)
  /\ [](\A r \in 1..Len(runs) :
          runs[r].wrapper.kind = "pending" => runs[r].timer = "armed")
  /\ \A r \in 1..MaxTasks :
       (r \in 1..Len(runs)) ~> taskFinished(r)
  /\ \A b \in BatchCalls :
       (batches[b].pc = "awaiting") ~>
         (batches[b].pc = "done" /\ executor.running = 0)

C30_Witness ==
  \E b \in DOMAIN batches :
    /\ batches[b].pc = "done"
    /\ Len(batches[b].tasks) = MaxTasks
    /\ \E r \in 1..Len(runs) :
         /\ runs[r].op = "pending"
         /\ runs[r].timer = "fired"
         /\ runs[r].done

\* the timer of the r-th started task has fired
timedOutTask(r) == r \in 1..Len(runs) /\ runs[r].timer = "fired"

\* C31: a task whose timer fires before its operation settles is recorded as
\* a failure with "Task timed out after <N>ms" and frees its slot; when the
\* abandoned operation settles afterwards the recorded result, the running
\* counter and the queue stay as they are and no task is started.
C31_TimeoutFinal ==
  /\ [](\A r \in 1..Len(runs) :
          (timedOutTask(r) /\ runs[r].done) =>
            /\ ResultsGet(executor.results, runs[r].task) =
                 ParallelResult(runs[r].task, FALSE, "undefined",
                                taskTimeoutError(executor.timeout))
            /\ r \notin slotsTaken
            /\ executor.running = Cardinality(slotsTaken))
  /\ [][\A r \in 1..Len(runs) :
          (timedOutTask(r) /\ runs[r].op = "pending" /\ runs'[r].op = "settled") =>
            /\ executor' = executor
            /\ Len(runs') = Len(runs)
            /\ runs'[r].wrapper = runs[r].wrapper
            /\ runs'[r].done = runs[r].done]_vars

C31_Witness ==
  \E r \in 1..Len(runs) :
    /\ timedOutTask(r)
    /\ runs[r].done
    /\ runs[r].op = "settled"
    /\ executor.queue # <<>>
    /\ ~executor.shouldStop
    /\ ~executor.results[runs[r].task].success

\* attempt id was in the table when cancelAllExecutions was called and its
\* tool had not settled
cancelledInFlight(id) ==
  /\ id \in 1..Len(att)
  /\ att[id].aborted
  /\ att[id].race.kind = "abort"

\* C32 as stated: cancelAllExecutions signals every attempt in the table and
\* returns their number, and afterwards every one of those attempts returns
\* the cancelled failure without throwing.
C32_CancelAllCancelsEvery ==
  \A id \in 1..Len(att) :
    (att[id].aborted /\ att[id].completed) =>
      att[id].outcome = Return(ToolResult(FALSE, "", cancelledMessage))

\* C32 amended: cancelAllExecutions signals every attempt in the table and
\* returns their number (0 when the table is empty); every signalled attempt
\* whose tool had not settled returns the cancelled failure without throwing,
\* one whose tool had already resolved returns the tool's result; every
\* signalled attempt eventually leaves the table.
C32_CancelAll ==
  /\ [][cancels'.made # cancels.made =>
          /\ cancels'.returned = <<Cardinality(activeExecutions)>>
          /\ \A id \in activeExecutions : att'[id].aborted
          /\ activeExecutions' = activeExecutions]_vars
  /\ [](\A id \in 1..Len(att) :
          (att[id].aborted /\ att[id].completed) =>
            att[id].outcome =
              IF att[id].race.kind = "return"
              THEN Return(att[id].race.value)
              ELSE Return(ToolResult(FALSE, "", cancelledMessage)))
  /\ \A id \in 1..MaxConcAttempts :
       (id \in activeExecutions /\ att[id].aborted) ~> (id \notin activeExecutions)

C32_Witness ==
  /\ cancels.returned = <<2>>
  /\ activeExecutions = {}
  /\ \E i, j \in 1..Len(att) :
       /\ i # j
       /\ att[i].call # att[j].call
       /\ cancelledInFlight(i) /\ att[i].completed
       /\ cancelledInFlight(j) /\ att[j].completed
       /\ att[i].outcome = Return(ToolResult(FALSE, "", cancelledMessage))
       /\ att[j].outcome = Return(ToolResult(FALSE, "", cancelledMessage))

\* getToolHistory(toolName): the positions of the history holding a record of
\* the tool
getToolHistory(toolName) ==
  {i \in 1..Len(executionHistory) : att[executionHistory[i]].toolName = toolName}

\* the counts of getToolPerformance(toolName), for a tool with a history
getToolPerformance(toolName) ==
  LET executions == getToolHistory(toolName)
      record(i) == att[executionHistory[i]]
  IN  [totalExecutions |-> Cardinality(executions),
       successes |-> Cardinality({i \in executions : record(i).success}),
       timeouts |-> Cardinality({i \in executions : record(i).timedOut}),
       cancellations |-> Cardinality({i \in executions : record(i).cancelled}),
       errors |-> Cardinality({i \in executions :
                    ~record(i).success /\ ~record(i).timedOut /\ ~record(i).cancelled})]

\* C33: the statistics of a tool count every record of the history in exactly
\* one class: successes + timeouts + cancellations + errors = totalExecutions;
\* no record is both timed out and cancelled, and no succeeded record is
\* timed out or cancelled.
C33_StatsPartition ==
  \A toolName \in Names :
    LET stats == getToolPerformance(toolName)
    IN  /\ stats.successes + stats.timeouts + stats.cancellations + stats.errors
             = stats.totalExecutions
        /\ \A i \in getToolHistory(toolName) :
             LET record == att[executionHistory[i]]
             IN  /\ ~(record.timedOut /\ record.cancelled)
                 /\ record.success => ~record.timedOut /\ ~record.cancelled

\* the sum alone
StatsSum ==
  \A toolName \in Names :
    LET stats == getToolPerformance(toolName)
    IN  stats.successes + stats.timeouts + stats.cancellations + stats.errors
          = stats.totalExecutions

\* the caller's signal of attempt id is aborted while the tool is pending
signalledInFlight(id) ==
  /\ id \in 1..Len(att)
  /\ ~att[id].completed
  /\ att[id].op = "pending"
  /\ calls[att[id].call].signal = "aborted"

\* C34: when the signal the caller passed is aborted before the tool has
\* completed, also when it was aborted before the call, the attempt stops
\* waiting for the tool and the timer: its race is rejected by the abort and
\* its metrics have cancelled set, and it returns the cancelled failure.
C34_ExternalAbortCancels ==
  /\ \A id \in 1..Len(att) :
       signalledInFlight(id) => att[id].race.kind = "abort" /\ att[id].cancelled
  /\ \A id \in 1..Len(att) :
       (/\ att[id].completed
        /\ att[id].race.kind = "abort"
        /\ att[id].cancelled
        /\ ~att[id].timedOut) =>
          att[id].outcome = Return(ToolResult(FALSE, "", cancelledMessage))

\* the part of C34 that holds: a signal that is live when the attempt starts
\* and is aborted while the tool is pending cancels the attempt
LiveSignalCancels ==
  [][\A id \in 1..Len(att) :
       (/\ ~att[id].completed
        /\ att[id].op = "pending"
        /\ att[id].race.kind = "pending"
        /\ calls[att[id].call].signal = "live"
        /\ calls'[att[id].call].signal = "aborted") =>
          att'[id].race.kind = "abort" /\ att'[id].cancelled]_vars

\* the configurations whose initial delay is within the cap
withinCap(retryConfig) == retryConfig.initialDelayMs <= retryConfig.maxDelayMs

\* C35: for every configuration handleWithRetry is called with, no wait
\* between two attempts is longer than maxDelayMs, and the waits never
\* decrease from one retry to the next.
C35_WaitsCappedMonotone ==
  \A c \in DOMAIN calls :
    \A i \in 1..Len(calls[c].waits) :
      /\ calls[c].waits[i] <= calls[c].retryConfig.maxDelayMs
      /\ i > 1 => calls[c].waits[i - 1] <= calls[c].waits[i]

\* the part of C35 that holds: configurations whose initialDelayMs is not
\* above maxDelayMs
WaitsCappedWithinCap ==
  \A c \in DOMAIN calls :
    withinCap(calls[c].retryConfig) =>
      \A i \in 1..Len(calls[c].waits) :
        /\ calls[c].waits[i] <= calls[c].retryConfig.maxDelayMs
        /\ i > 1 => calls[c].waits[i - 1] <= calls[c].waits[i]

\* the started tasks that run task i of execute() call b
runsOf(b, i) ==
  {r \in 1..Len(runs) : runs[r].batch = b /\ runs[r].task = batches[b].tasks[i].id}

\* C36: without stopOnError the tasks of a batch are independent: whatever
\* the other tasks do, the operation of every task is invoked exactly once,
\* and results[i] is the outcome of the operation of tasks[i]: success with
\* its value or failure with its error (the timeout error if its own timer
\* fired first).
C36_TasksIndependent ==
  \A b \in DOMAIN batches :
    ~executor.stopOnError =>
      /\ batches[b].pc # "idle" =>
           \A i \in 1..Len(batches[b].tasks) : Cardinality(runsOf(b, i)) <= 1
      /\ batches[b].pc = "done" =>
           /\ Len(batches[b].returned) = Len(batches[b].tasks)
           /\ \A i \in 1..Len(batches[b].tasks) :
                /\ Cardinality(runsOf(b, i)) = 1
                /\ \A r \in runsOf(b, i) :
                     /\ batches[b].returned[i] = outcomeOf(runs[r])
                     /\ (runs[r].timer = "fired") =
                          (batches[b].returned[i].error
                             = taskTimeoutError(executor.timeout))

C36_Witness ==
  \E b \in DOMAIN batches :
    /\ batches[b].pc = "done"
    /\ ~executor.stopOnError
    /\ Len(batches[b].tasks) = 3
    /\ batches[b].returned[1].error = "boom"
    /\ batches[b].returned[2].error = taskTimeoutError(executor.timeout)
    /\ batches[b].returned[3].success
    /\ batches[b].returned[3].result = "ok"

\* no name is listed twice
listedOnce(names) ==
  \A i, j \in 1..Len(names) : names[i] = names[j] => i = j

\* C37: registerTool is last-write-wins per name and touches nothing else:
\* the registry holds for every name the tool object of the latest
\* registerTool call, executeTool runs that object, getAvailableTools lists
\* every name once and a name registered again keeps its place; a
\* registration changes neither the history nor the table of active
\* executions.
C37_LastWriteWins ==
  /\ [](\A name \in Names : MapGet(tools, name) = registered[name])
  /\ [](listedOnce(getAvailableTools))
  /\ [][registered' # registered =>
          /\ \A i \in 1..Len(getAvailableTools) :
               getAvailableTools'[i] = getAvailableTools[i]
          /\ Len(getAvailableTools') \in
               {Len(getAvailableTools), Len(getAvailableTools) + 1}
          /\ executionHistory' = executionHistory
          /\ activeExecutions' = activeExecutions
          /\ att' = att]_vars
  /\ [][\A c \in DOMAIN calls :
          (calls[c].pc = "idle" /\ calls'[c].pc = "running") =>
            /\ Len(att') = Len(att) + 1
            /\ att'[Len(att')].toolName = calls'[c].toolName
            /\ att'[Len(att')].impl = registered[calls'[c].toolName]]_vars

C37_Witness ==
  /\ getAvailableTools = <<"echo", "grep">>
  /\ registered["echo"] = "v2"
  /\ MapGet(tools, "echo") = "v2"
  /\ \E i, j \in 1..Len(att) :
       /\ att[i].toolName = "echo" /\ att[i].impl = "v1"
       /\ att[j].toolName = "echo" /\ att[j].impl = "v2"
       /\ i < j

\* C38: the in-memory error log never holds more than 100 entries; every
\* logError call appends exactly one entry, and when that makes 101 exactly
\* the oldest entry is dropped and the others keep their order.
C38_ErrorLogBounded ==
  /\ [](Len(errorLogs) <= 100)
  /\ [][errorLogs' # errorLogs =>
          /\ Cardinality(newErrorLogs') = Cardinality(newErrorLogs) + 1
          /\ errorLogs'[Len(errorLogs')].retryCount = NoRetryCount
          /\ IF Len(errorLogs) < 100
             THEN /\ Len(errorLogs') = Len(errorLogs) + 1
                  /\ \A i \in 1..Len(errorLogs) : errorLogs'[i] = errorLogs[i]
             ELSE /\ Len(errorLogs') = 100
                  /\ \A i \in 1..99 : errorLogs'[i] = errorLogs[i + 1]]_vars

C38_Witness ==
  /\ Len(errorLogs) = 100
  /\ errorLogs[1] = pastErrorLog(MaxLogCalls + 1)
  /\ errorLogs[100 - MaxLogCalls] = pastErrorLog(100)
  /\ Cardinality(newErrorLogs) = MaxLogCalls
  /\ errorLogs[100].category = "network"

====
